---- MODULE Spec2Model ----
(***************************************************************************)
(* Helios: the command-line orchestrator (src/helios.py) over the          *)
(* streaming-host catalog model (src/apollo/apollo.py).                    *)
(*                                                                         *)
(* The state is what one invocation of main() holds in memory (the         *)
(* unified map all_libraries, the ApolloAppsJSON object, the status map    *)
(* of the running workflow) together with the three things it shares with  *)
(* later invocations: the host's apps.json, the Helios cache file and the  *)
(* covers directory.                                                       *)
(***************************************************************************)
EXTENDS Integers, Sequences, FiniteSets, TLC

VARIABLES
    pc,          \* position of main(): "idle", "cache", "addLoop", ...
    libs,        \* all_libraries: uuid -> discovered record
    apps,        \* apollo.apps (the same list as apollo.data["apps"])
    by_uuid,     \* apollo.by_uuid: uuid -> catalog entry
    file,        \* the entries of <root>/Config/apps.json on disk
    covers,      \* the covers directory: file name -> "valid" | "corrupt" | "other"
    cache,       \* %LOCALAPPDATA%/Helios/apps.json: [exists, data: uuid -> record]
    queue,       \* explicit_apps + selected_apps not yet processed by the loop
    status_map,  \* status_map of the running workflow: uuid -> status
    all_done,    \* all_added / all_removed of the running workflow
    table,       \* the rows print_apps_with_status printed last: uuid -> status
    calls,       \* what each _add_game / _remove_game call of the workflow did
    recon,       \* the last verify_managed_covers pass: its counters and the state it started from
    view,        \* what the last print_helios_status counted
    sel,         \* the selection of the last cache refresh and the cache file before it
    last_save,   \* the last direct save_library_capsule call: its arguments and result
    input,       \* the arguments of the last call of a function checked on its own
    result,      \* what that call returned, raised or printed
    env_path,    \* the file at the path of the EnvironmentAppsJSON object
    env,         \* the EnvironmentAppsJSON object: [open, data, apps, by_uuid, root]
    apollo_path, \* the file at the path of the ApolloAppsJSON object
    apollo       \* the ApolloAppsJSON object with whole entries: [open, data, apps, by_uuid, root]

vars == <<pc, libs, apps, by_uuid, file, covers, cache, queue,
          status_map, all_done, table, calls, recon, view, sel, last_save,
          input, result, env_path, env, apollo_path, apollo>>

\* the variables of the functions and of the catalog models checked on their own
aux == <<input, result, env_path, env, apollo_path, apollo>>

-----------------------------------------------------------------------------
(* Bounds of the model *)

\* discovered apps are the uuids 1..MaxApps; uuid 0 is never discovered
MaxApps == 2
\* longest list of explicit uuids given to --add / --remove
MaxArgs == 2

Uuids == 1..MaxApps
AnyUuid == 0..MaxApps

-----------------------------------------------------------------------------
(* Values *)

None == "None"
\* the Helios cache file: missing, or a JSON object uuid -> record
NoFile == [exists |-> FALSE, data |-> <<>>]
CacheFile(m) == [exists |-> TRUE, data |-> m]
EmptyMap == <<>>

\* no call yet, no file at the path, no object constructed
NoCall == [op |-> "none"]
Missing == [exists |-> FALSE]
NoModel == [open |-> FALSE]

AuxIdle ==
    /\ input = NoCall
    /\ result = NoCall
    /\ env_path = Missing
    /\ env = NoModel
    /\ apollo_path = Missing
    /\ apollo = NoModel

Get(r, f) == IF f \in DOMAIN r THEN r[f] ELSE None

Range(s) == {s[i] : i \in DOMAIN s}

\* {**old, **new}
Merge(old, new) ==
    [f \in DOMAIN old \cup DOMAIN new |-> IF f \in DOMAIN new THEN new[f] ELSE old[f]]

Restrict(m, keys) == [k \in DOMAIN m \cap keys |-> m[k]]

\* the status strings main() records
StAdded == "Added"
StAlready == "Already added"
StNotFound == "UUID not found"
StRemoved == "Removed"
StNotManaged == "Not currently managed"

-----------------------------------------------------------------------------
(* The catalog model: ApolloAppsJSON *)

\* A catalog entry is [uuid, image]: image is the kind of its image-path,
\*   ""       no image-path
\*   "cover"  <covers-dir>/<uuid>.png, the path save_library_capsule returns
\*   "local"  a path that resolves to an existing image file
\*   "gone"   a path that resolves to no file
ImageKinds == {"", "cover", "local", "gone"}

UuidsOf(entries) == {entries[i].uuid : i \in DOMAIN entries}

\* the index of the entry the lookup holds for u: the dict comprehension of
\* __init__ keeps the last entry of a uuid
IndexOf(entries, u) ==
    CHOOSE i \in DOMAIN entries :
        /\ entries[i].uuid = u
        /\ \A j \in DOMAIN entries : entries[j].uuid = u => j <= i

\* by_uuid as __init__ builds it from the loaded list
BuildLookup(entries) == [u \in UuidsOf(entries) |-> entries[IndexOf(entries, u)]]

\* bool(apollo.get_app_by_uuid(uuid)): an entry is a non-empty dict
get_app_by_uuid(lookup, u) == u \in DOMAIN lookup

\* get_image_path: None without an entry or an image-path, else the resolved path.
\* The result is the kind of file the resolved path names.
get_image_path(lookup, u) ==
    IF u \notin DOMAIN lookup THEN None
    ELSE IF lookup[u].image = "" THEN None
    ELSE lookup[u].image

-----------------------------------------------------------------------------
(* Covers *)

CoverFile(u) == <<u, "png">>

\* dest.exists()
Exists(cov, name) == name \in DOMAIN cov

is_valid_png(cov, name) == Exists(cov, name) /\ cov[name] = "valid"

Unlink(cov, name) == [n \in DOMAIN cov \ {name} |-> cov[n]]

WritePng(cov, name) == [n \in DOMAIN cov \cup {name} |-> IF n = name THEN "valid" ELSE cov[n]]

\* The source argument of save_library_capsule, by what the code does with it:
\*   None, ""      not a non-blank string
\*   "urlOk"       http(s) URL that is fetched and decoded
\*   "urlFail"     http(s) URL whose fetch or decode raises
\*   "fileUrlOk"   file:// URL of a readable image
\*   "pathOk"      local path of a readable image
\*   "pathBad"     local path of a file that is no image (Image.open raises)
\*   "pathMissing" local path of no file
Sources == {None, "", "urlOk", "urlFail", "fileUrlOk", "pathOk", "pathBad", "pathMissing"}

IsHttp(src) == src \in {"urlOk", "urlFail"}

\* mutant: the valid destination is overwritten from the source instead of returned
save_library_capsule_refetch(u, src, cov) ==
    LET dest == CoverFile(u)
        cleared == IF Exists(cov, dest) THEN Unlink(cov, dest) ELSE cov
    IN  IF src \in {None, ""} THEN [ret |-> None, covers |-> cov]
        ELSE IF src \in {"urlOk", "fileUrlOk", "pathOk"}
             THEN [ret |-> "cover", covers |-> WritePng(cleared, dest)]
        ELSE [ret |-> None, covers |-> cleared]

\* save_library_capsule(uuid, url_or_path): the path it returns ("cover") or None,
\* and the covers directory it leaves
save_library_capsule(u, src, cov) ==
    LET dest == CoverFile(u)
        \* an existing destination that is not a PNG is unlinked before the fetch
        cleared == IF Exists(cov, dest) /\ ~is_valid_png(cov, dest)
                   THEN Unlink(cov, dest) ELSE cov
    IN  IF src \in {None, ""} THEN [ret |-> None, covers |-> cov]
        ELSE IF is_valid_png(cov, dest) THEN [ret |-> "cover", covers |-> cov]
        ELSE IF src \in {"urlOk", "fileUrlOk", "pathOk"}
             THEN [ret |-> "cover", covers |-> WritePng(cleared, dest)]
        \* "pathMissing" returns None; "urlFail" and "pathBad" raise, and the
        \* handler unlinks a destination that exists: none does by then
        ELSE [ret |-> None, covers |-> cleared]

\* managed_uuids of verify_managed_covers: the keys of the unified map whose
\* record is flagged managed
managed_uuids(libraries) == {u \in DOMAIN libraries : libraries[u].managed_by_helios}

\* the file the image source of a managed uuid names is usable: an http(s) URL,
\* or a path that exists
SourceValid(st, capsule, u) ==
    IF capsule \notin {None, ""}
    THEN IsHttp(capsule) \/ capsule \in {"pathOk", "pathBad"}
    ELSE LET p == get_image_path(st.by_uuid, u)
         IN  \/ p = "local"
             \/ p = "cover" /\ Exists(st.covers, CoverFile(u))

\* apollo_app["image-path"] = saved: the entry is the same object in the list
\* and in the lookup
SetImage(entries, u, img) ==
    [entries EXCEPT ![IndexOf(entries, u)] = [@ EXCEPT !.image = img]]

\* one iteration of the loop over managed_uuids
ReconcileOne(st, libraries, u) ==
    LET dest == CoverFile(u)
        capsule == libraries[u].library_capsule
        \* the helper is given image_source, the discovered record's library_capsule
        saved == save_library_capsule(u, capsule, st.covers)
    IN  IF is_valid_png(st.covers, dest) THEN st
        ELSE IF ~get_app_by_uuid(st.by_uuid, u) THEN st
        ELSE IF ~SourceValid(st, capsule, u)
             THEN [st EXCEPT !.failed = @ \cup {u}]
        ELSE IF saved.ret = None
             THEN [st EXCEPT !.failed = @ \cup {u}, !.covers = saved.covers]
        ELSE IF st.by_uuid[u].image # saved.ret
             THEN LET apps2 == SetImage(st.apps, u, saved.ret)
                  IN  [st EXCEPT !.restored = @ \cup {u}, !.covers = saved.covers,
                                 !.apps = apps2,
                                 !.by_uuid = [@ EXCEPT ![u] = [@ EXCEPT !.image = saved.ret]],
                                 !.file = apps2]
        ELSE [st EXCEPT !.restored = @ \cup {u}, !.covers = saved.covers]

RECURSIVE ReconcileAll(_, _, _)
ReconcileAll(st, libraries, todo) ==
    IF todo = {} THEN st
    ELSE LET u == CHOOSE x \in todo : TRUE
         IN  ReconcileAll(ReconcileOne(st, libraries, u), libraries, todo \ {u})

\* the .png files of the covers directory
PngFiles(cov) == {n \in DOMAIN cov : n[2] = "png"}

\* mutant: the cleanup pass deletes every .png of a uuid that is not discovered
CleanupTargets_undiscovered(cov, libraries) ==
    {n \in PngFiles(cov) : n[1] \notin DOMAIN libraries}

\* the files the cleanup pass unlinks
CleanupTargets(cov, libraries) ==
    {n \in PngFiles(cov) : n[1] \notin managed_uuids(libraries)}

\* verify_managed_covers(all_libraries, apollo, cleanup=...)
verify_managed_covers(libraries, entries, lookup, disk, cov, cleanup) ==
    LET st0 == [apps |-> entries, by_uuid |-> lookup, file |-> disk, covers |-> cov,
                scanned |-> cov, restored |-> {}, failed |-> {}, removed |-> {}]
        st1 == ReconcileAll(st0, libraries, managed_uuids(libraries))
        \* covers_dir.iterdir() as the cleanup loop reads it
        st2 == [st1 EXCEPT !.scanned = st1.covers]
        gone == CleanupTargets(st2.scanned, libraries)
    IN  IF cleanup
        THEN [st2 EXCEPT !.covers = [n \in DOMAIN st2.covers \ gone |-> st2.covers[n]],
                         !.removed = gone]
        ELSE st2

\* print_helios_status: the cover files it counts as orphaned
orphaned_covers(cov, libraries) ==
    LET managed_apps == {libraries[u] : u \in managed_uuids(libraries)}
        managed_cover_uuids == {a.uuid : a \in managed_apps}
    IN  {n \in PngFiles(cov) : n[1] \notin managed_cover_uuids}

-----------------------------------------------------------------------------
(* The Helios cache *)

\* mutant: the flags are left as they were
mark_helios_managed_apps_stale(libraries, lookup) == libraries

\* mark_helios_managed_apps
mark_helios_managed_apps(libraries, lookup) ==
    [u \in DOMAIN libraries |->
        Merge(libraries[u], [managed_by_helios |-> get_app_by_uuid(lookup, u)])]

WithSource(m, s) == Restrict(m, {u \in DOMAIN m : Get(m[u], "source") = s})

\* mutant: a per-source refresh that starts from an empty cache
update_helios_cache_wipe(libraries, selection, current) ==
    IF selection \in {"steam", "nonsteam", "epic"}
    THEN WithSource(libraries, selection) ELSE libraries

\* mutant: the inserted record replaces the cached one instead of merging into it
update_helios_cache_replace(libraries, selection, current) ==
    LET current_cache == IF current.exists THEN current.data ELSE EmptyMap
        apps_to_include == IF selection \in {"steam", "nonsteam", "epic"}
                           THEN WithSource(libraries, selection) ELSE libraries
        kept == IF selection = "all" THEN EmptyMap
                ELSE Restrict(current_cache,
                       {u \in DOMAIN current_cache : Get(current_cache[u], "source") # selection})
    IN  [u \in DOMAIN kept \cup DOMAIN apps_to_include |->
            IF u \in DOMAIN apps_to_include THEN apps_to_include[u] ELSE kept[u]]

\* mutant: a full refresh that does not clear the cache first
update_helios_cache_no_clear(libraries, selection, current) ==
    LET current_cache == IF current.exists THEN current.data ELSE EmptyMap
        apps_to_include == IF selection \in {"steam", "nonsteam", "epic"}
                           THEN WithSource(libraries, selection) ELSE libraries
        kept == Restrict(current_cache,
                       {u \in DOMAIN current_cache : Get(current_cache[u], "source") # selection})
    IN  [u \in DOMAIN kept \cup DOMAIN apps_to_include |->
            IF u \in DOMAIN apps_to_include
            THEN Merge(IF u \in DOMAIN kept THEN kept[u] ELSE EmptyMap, apps_to_include[u])
            ELSE kept[u]]

\* update_helios_cache(libraries, selection): the cache file it writes, given
\* the file it found (NoFile when missing)
update_helios_cache(libraries, selection, current) ==
    LET current_cache == IF current.exists THEN current.data ELSE EmptyMap
        apps_to_include == IF selection \in {"steam", "nonsteam", "epic"}
                           THEN WithSource(libraries, selection) ELSE libraries
        kept == IF selection = "all" THEN EmptyMap
                ELSE Restrict(current_cache,
                       {u \in DOMAIN current_cache : Get(current_cache[u], "source") # selection})
    IN  [u \in DOMAIN kept \cup DOMAIN apps_to_include |->
            IF u \in DOMAIN apps_to_include
            THEN Merge(IF u \in DOMAIN kept THEN kept[u] ELSE EmptyMap, apps_to_include[u])
            ELSE kept[u]]

-----------------------------------------------------------------------------
(* Adding and removing one app *)

Put(m, k, v) == [x \in DOMAIN m \cup {k} |-> IF x = k THEN v ELSE m[x]]

\* check_admin_write(apollo.apps_json_path): the catalog file exists once it
\* is loaded, so the answer is os.access(file_path, os.W_OK)
check_admin_write(access) == access

\* mutant: the cover file is left behind
_remove_game_keep_cover(u, access, st) ==
    IF ~get_app_by_uuid(st.by_uuid, u) THEN [st EXCEPT !.ok = FALSE]
    ELSE IF ~check_admin_write(access) THEN [st EXCEPT !.ok = FALSE, !.denied = TRUE]
    ELSE LET kept == SelectSeq(st.apps, LAMBDA e : e.uuid # u)
         IN  [st EXCEPT !.ok = TRUE, !.apps = kept,
                        !.by_uuid = Restrict(@, DOMAIN @ \ {u}), !.file = kept]

\* _add_game(apollo, all_libraries, app_data): st holds the catalog model, the
\* catalog file and the covers directory; ok is the value returned
_add_game(u, app_data, access, st) ==
    IF get_app_by_uuid(st.by_uuid, u) THEN [st EXCEPT !.ok = FALSE]
    ELSE IF ~check_admin_write(access) THEN [st EXCEPT !.ok = FALSE, !.denied = TRUE]
    ELSE LET image_path == save_library_capsule(u, app_data.library_capsule, st.covers)
             app_entry == [uuid |-> u,
                           image |-> IF image_path.ret = None THEN "" ELSE image_path.ret]
             appended == Append(st.apps, app_entry)
         IN  [st EXCEPT !.ok = TRUE, !.covers = image_path.covers, !.apps = appended,
                        !.by_uuid = Put(@, u, app_entry),
                        \* apollo.save()
                        !.file = appended]

\* _remove_game(apollo, all_libraries, game_data)
_remove_game(u, access, st) ==
    IF ~get_app_by_uuid(st.by_uuid, u) THEN [st EXCEPT !.ok = FALSE]
    ELSE IF ~check_admin_write(access) THEN [st EXCEPT !.ok = FALSE, !.denied = TRUE]
    ELSE LET kept == SelectSeq(st.apps, LAMBDA e : e.uuid # u)
         IN  [st EXCEPT !.ok = TRUE, !.apps = kept,
                        !.by_uuid = Restrict(@, DOMAIN @ \ {u}),
                        \* apollo.data["apps"] = apollo.apps; apollo.save()
                        !.file = kept,
                        \* cover_path.unlink() when it exists
                        !.covers = Unlink(@, CoverFile(u))]

\* the catalog model, the catalog file and the covers directory as the
\* single-app helpers find them
Current == [apps |-> apps, by_uuid |-> by_uuid, file |-> file, covers |-> covers,
            ok |-> FALSE, denied |-> FALSE]

\* print_apps_with_status(apps_for_status, status_map) as main() calls it: the
\* rows are the uuids of the status map that all_libraries holds
print_apps_with_status(libraries, statuses) == Restrict(statuses, DOMAIN libraries)

RECURSIVE SetToSeq(_)
SetToSeq(S) ==
    IF S = {} THEN <<>>
    ELSE LET m == CHOOSE x \in S : \A y \in S : x <= y
         IN  <<m>> \o SetToSeq(S \ {m})

\* the values of --add / --remove: lists of at most MaxArgs explicit uuids
ArgLists == UNION {[1..n -> AnyUuid] : n \in 0..MaxArgs}

-----------------------------------------------------------------------------
(* The environment an invocation starts in *)

\* the source of a discovered app
SourceOf(u) == IF u % 3 = 1 THEN "steam" ELSE IF u % 3 = 2 THEN "epic" ELSE "nonsteam"

Discovered(u, capsule) ==
    [uuid |-> u, source |-> SourceOf(u), library_capsule |-> capsule,
     managed_by_helios |-> FALSE]

\* the library capsule of a discovered app: a URL that loads, none, a URL that fails
CapsuleOf(u) == IF u % 3 = 1 THEN "urlOk" ELSE IF u % 3 = 2 THEN None ELSE "urlFail"

\* get_steam_library() and get_installed_epic_games() merged: every uuid of
\* Uuids is discovered
InitLibs == {[u \in Uuids |-> Discovered(u, CapsuleOf(u))]}

Present(g) == {k \in DOMAIN g : g[k] # "absent"}

\* apps.json as the host left it: at most one entry per uuid
InitCatalogs ==
    {LET order == SetToSeq(Present(g))
     IN  [i \in DOMAIN order |-> [uuid |-> order[i], image |-> g[order[i]]]] :
        g \in {h \in [AnyUuid -> {"absent", "", "cover"}] : h[0] # ""}}

\* the covers directory: the <uuid>.png files present
InitCovers ==
    {Restrict(g, Present(g)) : g \in [{CoverFile(u) : u \in AnyUuid} -> {"absent", "valid"}]}

\* the Helios cache an invocation finds: none, or that of an earlier run that
\* knew an app no longer discovered and lacks one discovered since
InitCaches ==
    {NoFile,
     CacheFile([u \in {0, 1} |->
        Merge(Discovered(u, CapsuleOf(u)), [managed_by_helios |-> TRUE])])}

NoRecon == [cleanup |-> FALSE, ran |-> FALSE, libs |-> <<>>, by_uuid |-> <<>>,
            before |-> <<>>, scanned |-> <<>>,
            restored |-> {}, failed |-> {}, removed |-> {}]
NoView == [shown |-> FALSE, orphaned |-> {}, managed |-> {}]
NoSel == [selection |-> None, before |-> NoFile]
NoSave == [called |-> FALSE, uuid |-> 0, src |-> None, before |-> <<>>, ret |-> None]

Init ==
    /\ AuxIdle
    /\ pc = "idle"
    /\ libs \in InitLibs
    /\ file \in InitCatalogs
    /\ covers \in InitCovers
    /\ cache \in InitCaches
    /\ apps = <<>>
    /\ by_uuid = EmptyMap
    /\ queue = <<>>
    /\ status_map = EmptyMap
    /\ all_done = <<>>
    /\ table = EmptyMap
    /\ calls = {}
    /\ recon = NoRecon
    /\ view = NoView
    /\ sel = NoSel
    /\ last_save = NoSave

-----------------------------------------------------------------------------
(* main() *)

ReconOf(r, libraries, lookup, cov, cleanup) ==
    [cleanup |-> cleanup, ran |-> TRUE, libs |-> libraries, by_uuid |-> lookup,
     before |-> cov, scanned |-> r.scanned,
     restored |-> r.restored, failed |-> r.failed, removed |-> r.removed]

\* Load Libraries and Verify Setup: the catalog is opened, the unified map is
\* marked, the cache is rebuilt when missing, covers are reconciled, the map is
\* marked again and the whole cache is refreshed
Startup ==
    /\ UNCHANGED aux
    /\ pc = "idle"
    /\ LET loaded == BuildLookup(file)
           marked == mark_helios_managed_apps(libs, loaded)
           \* verify_helios_cache
           rebuilt == IF cache.exists THEN cache
                      ELSE CacheFile(update_helios_cache(marked, "all", cache))
           r == verify_managed_covers(marked, file, loaded, file, covers, FALSE)
           remarked == mark_helios_managed_apps(marked, r.by_uuid)
       IN  /\ apps' = r.apps
           /\ by_uuid' = r.by_uuid
           /\ file' = r.file
           /\ covers' = r.covers
           /\ libs' = remarked
           /\ cache' = CacheFile(update_helios_cache(remarked, "all", rebuilt))
           /\ recon' = ReconOf(r, marked, loaded, covers, FALSE)
    /\ pc' = "cache"
    /\ UNCHANGED <<queue, status_map, all_done, table, calls, view, sel, last_save>>

\* --cache: handle_cache_option
CacheCmd ==
    /\ UNCHANGED aux
    /\ pc = "cache"
    /\ \E selection \in {None, "steam", "epic", "nonsteam", "all"} :
          IF selection = None
          THEN UNCHANGED <<cache, sel>>
          ELSE /\ cache' = CacheFile(update_helios_cache(libs, selection, cache))
               /\ sel' = [selection |-> selection, before |-> cache]
    /\ pc' = "add"
    /\ recon' = NoRecon
    /\ UNCHANGED <<libs, apps, by_uuid, file, covers, queue, status_map, all_done,
                   table, calls, view, last_save>>

\* --add absent
AddSkip ==
    /\ UNCHANGED aux
    /\ pc = "add"
    /\ pc' = "remove"
    /\ sel' = NoSel
    /\ UNCHANGED <<libs, apps, by_uuid, file, covers, cache, queue, status_map,
                   all_done, table, calls, recon, view, last_save>>

\* --add with these explicit uuids: they are resolved and the interactive
\* selection is read
AddStartWith(explicit_uuids) ==
    /\ UNCHANGED aux
    /\ pc = "add"
    /\    LET unmanaged_apps == {u \in DOMAIN libs : ~libs[u].managed_by_helios}
              explicit_apps == SelectSeq(explicit_uuids, LAMBDA u : u \in unmanaged_apps)
              others == Range(explicit_uuids) \ unmanaged_apps
              \* no filter is given: the pool is offered only without explicit uuids
              interactive_pool == IF explicit_uuids = <<>>
                                  THEN SetToSeq(unmanaged_apps \ Range(explicit_apps))
                                  ELSE <<>>
          IN  \E chosen \in SUBSET Range(interactive_pool) :
                 /\ queue' = explicit_apps \o SelectSeq(interactive_pool, LAMBDA u : u \in chosen)
                 /\ status_map' = [u \in others |->
                                      IF u \in DOMAIN libs THEN StAlready ELSE StNotFound]
    /\ pc' = "addLoop"
    /\ sel' = NoSel
    /\ UNCHANGED <<libs, apps, by_uuid, file, covers, cache, all_done, table, calls,
                   recon, view, last_save>>

\* --add, whatever uuids it names
AddStart == \E explicit_uuids \in ArgLists : AddStartWith(explicit_uuids)

\* one iteration of "for app in explicit_apps + selected_apps" of the add
\* workflow, write access to the catalog granted or not
AddOneWith(access) ==
    /\ UNCHANGED aux
    /\ pc = "addLoop"
    /\ queue # <<>>
    /\    LET u == Head(queue)
              r == _add_game(u, libs[u], access, Current)
          IN  /\ apps' = r.apps
              /\ by_uuid' = r.by_uuid
              /\ file' = r.file
              /\ covers' = r.covers
              /\ status_map' = Put(status_map, u, StAdded)
              /\ all_done' = Append(all_done, u)
              /\ calls' = calls \cup {[op |-> "add", uuid |-> u,
                                       present |-> get_app_by_uuid(by_uuid, u),
                                       denied |-> r.denied, ok |-> r.ok,
                                       had_cover |-> Exists(covers, CoverFile(u))]}
    /\ queue' = Tail(queue)
    /\ UNCHANGED <<pc, libs, cache, table, recon, view, sel, last_save>>

AddOne == \E access \in BOOLEAN : AddOneWith(access)

\* after the loop: the cache is refreshed and the results are printed
AddFinish ==
    /\ UNCHANGED aux
    /\ pc = "addLoop"
    /\ queue = <<>>
    /\ LET remarked == IF all_done # <<>> THEN mark_helios_managed_apps(libs, by_uuid) ELSE libs
       IN  /\ libs' = remarked
           /\ cache' = IF all_done # <<>>
                       THEN CacheFile(update_helios_cache(remarked, "all", cache)) ELSE cache
    /\ table' = IF DOMAIN status_map # {}
                THEN print_apps_with_status(libs, status_map) ELSE EmptyMap
    /\ pc' = "remove"
    /\ UNCHANGED <<apps, by_uuid, file, covers, queue, status_map, all_done, calls,
                   recon, view, sel, last_save>>

\* --remove absent
RemoveSkip ==
    /\ UNCHANGED aux
    /\ pc = "remove"
    /\ pc' = "cleanup"
    /\ status_map' = EmptyMap
    /\ all_done' = <<>>
    /\ table' = EmptyMap
    /\ calls' = {}
    /\ UNCHANGED <<libs, apps, by_uuid, file, covers, cache, queue, recon, view, sel,
                   last_save>>

\* --remove with these explicit uuids: they are resolved and the interactive
\* selection is read
RemoveStartWith(explicit_uuids) ==
    /\ UNCHANGED aux
    /\ pc = "remove"
    /\    LET managed_apps == {u \in DOMAIN libs : libs[u].managed_by_helios}
              explicit_apps == SelectSeq(explicit_uuids, LAMBDA u : u \in managed_apps)
              others == Range(explicit_uuids) \ managed_apps
              interactive_pool == IF explicit_uuids = <<>>
                                  THEN SetToSeq(managed_apps \ Range(explicit_apps))
                                  ELSE <<>>
          IN  \E chosen \in SUBSET Range(interactive_pool) :
                 /\ queue' = explicit_apps \o SelectSeq(interactive_pool, LAMBDA u : u \in chosen)
                 /\ status_map' = [u \in others |->
                                      IF u \in DOMAIN libs THEN StNotManaged ELSE StNotFound]
    /\ all_done' = <<>>
    /\ calls' = {}
    /\ table' = EmptyMap
    /\ pc' = "removeLoop"
    /\ UNCHANGED <<libs, apps, by_uuid, file, covers, cache, recon, view, sel, last_save>>

\* --remove, whatever uuids it names
RemoveStart == \E explicit_uuids \in ArgLists : RemoveStartWith(explicit_uuids)

\* one iteration of "for app in explicit_apps + selected_apps" of the remove
\* workflow, write access to the catalog granted or not
RemoveOneWith(access) ==
    /\ UNCHANGED aux
    /\ pc = "removeLoop"
    /\ queue # <<>>
    /\    LET u == Head(queue)
              r == _remove_game(u, access, Current)
          IN  /\ apps' = r.apps
              /\ by_uuid' = r.by_uuid
              /\ file' = r.file
              /\ covers' = r.covers
              /\ status_map' = Put(status_map, u, StRemoved)
              /\ all_done' = Append(all_done, u)
              /\ calls' = calls \cup {[op |-> "remove", uuid |-> u,
                                       present |-> get_app_by_uuid(by_uuid, u),
                                       denied |-> r.denied, ok |-> r.ok,
                                       had_cover |-> Exists(covers, CoverFile(u))]}
    /\ queue' = Tail(queue)
    /\ UNCHANGED <<pc, libs, cache, table, recon, view, sel, last_save>>

RemoveOne == \E access \in BOOLEAN : RemoveOneWith(access)

\* after the loop: the cache is refreshed and the results are printed
RemoveFinish ==
    /\ UNCHANGED aux
    /\ pc = "removeLoop"
    /\ queue = <<>>
    /\ LET remarked == IF all_done # <<>> THEN mark_helios_managed_apps(libs, by_uuid) ELSE libs
       IN  /\ libs' = remarked
           /\ cache' = IF all_done # <<>>
                       THEN CacheFile(update_helios_cache(remarked, "all", cache)) ELSE cache
    /\ table' = IF DOMAIN status_map # {}
                THEN print_apps_with_status(libs, status_map) ELSE EmptyMap
    /\ pc' = "cleanup"
    /\ UNCHANGED <<apps, by_uuid, file, covers, queue, status_map, all_done, calls,
                   recon, view, sel, last_save>>

\* --cleanup-covers: verify_managed_covers(all_libraries, apollo, cleanup=True)
CleanupCovers ==
    /\ UNCHANGED aux
    /\ pc = "cleanup"
    /\ \E cleanup_covers \in BOOLEAN :
          IF cleanup_covers
          THEN LET r == verify_managed_covers(libs, apps, by_uuid, file, covers, TRUE)
               IN  /\ apps' = r.apps
                   /\ by_uuid' = r.by_uuid
                   /\ file' = r.file
                   /\ covers' = r.covers
                   /\ recon' = ReconOf(r, libs, by_uuid, covers, TRUE)
          ELSE UNCHANGED <<apps, by_uuid, file, covers, recon>>
    /\ pc' = "status"
    /\ status_map' = EmptyMap
    /\ all_done' = <<>>
    /\ table' = EmptyMap
    /\ calls' = {}
    /\ UNCHANGED <<libs, cache, queue, view, sel, last_save>>

\* --status helios: print_helios_status
StatusCmd ==
    /\ UNCHANGED aux
    /\ pc = "status"
    /\ \E status \in {None, "helios"} :
          IF status = "helios"
          THEN view' = [shown |-> TRUE, orphaned |-> orphaned_covers(covers, libs),
                        managed |-> managed_uuids(libs)]
          ELSE UNCHANGED view
    /\ pc' = "exit"
    /\ recon' = NoRecon
    /\ UNCHANGED <<libs, apps, by_uuid, file, covers, cache, queue, status_map,
                   all_done, table, calls, sel, last_save>>

\* the process ends: what it held in memory is gone, the files stay
Exit ==
    /\ UNCHANGED aux
    /\ pc = "exit"
    /\ pc' = "idle"
    /\ apps' = <<>>
    /\ by_uuid' = EmptyMap
    /\ libs' = [u \in DOMAIN libs |-> [libs[u] EXCEPT !.managed_by_helios = FALSE]]
    /\ view' = NoView
    /\ UNCHANGED <<file, covers, cache, queue, status_map, all_done, table, calls,
                   recon, sel, last_save>>

Next ==
    \/ Startup
    \/ CacheCmd
    \/ AddSkip
    \/ AddStart
    \/ AddOne
    \/ AddFinish
    \/ RemoveSkip
    \/ RemoveStart
    \/ RemoveOne
    \/ RemoveFinish
    \/ CleanupCovers
    \/ StatusCmd
    \/ Exit

Spec == Init /\ [][Next]_vars

-----------------------------------------------------------------------------
(* One invocation that names an app with --add and one with --remove *)

\* the value of --add and of --remove: one discovered uuid
RunArgs == {<<u>> : u \in Uuids}

\* the command line of the invocation, whether the catalog may be written when
\* the add and the remove loop ask, and the uuids managed when it starts
RunPlans(catalog) ==
    {[op |-> "run", add |-> a, remove |-> r, add_access |-> wa, remove_access |-> wr,
      managed |-> UuidsOf(catalog)] :
        a \in RunArgs, r \in RunArgs, wa \in BOOLEAN, wr \in BOOLEAN}

InitRun ==
    /\ pc = "idle"
    /\ libs \in InitLibs
    /\ file \in InitCatalogs
    /\ covers \in InitCovers
    /\ cache = NoFile
    /\ apps = <<>>
    /\ by_uuid = EmptyMap
    /\ queue = <<>>
    /\ status_map = EmptyMap
    /\ all_done = <<>>
    /\ table = EmptyMap
    /\ calls = {}
    /\ recon = NoRecon
    /\ view = NoView
    /\ sel = NoSel
    /\ last_save = NoSave
    /\ input \in RunPlans(file)
    /\ result = NoCall
    /\ env_path = Missing
    /\ env = NoModel
    /\ apollo_path = Missing
    /\ apollo = NoModel

RunAddStart == AddStartWith(input.add)
RunAddOne == AddOneWith(input.add_access)
RunRemoveStart == RemoveStartWith(input.remove)
RunRemoveOne == RemoveOneWith(input.remove_access)

\* main() from its start to its end
NextRun ==
    \/ Startup
    \/ CacheCmd
    \/ RunAddStart
    \/ RunAddOne
    \/ AddFinish
    \/ RunRemoveStart
    \/ RunRemoveOne
    \/ RemoveFinish
    \/ CleanupCovers
    \/ StatusCmd

SpecRun == InitRun /\ [][NextRun]_vars

-----------------------------------------------------------------------------
(* Cover reconciliation on its own: verify_managed_covers, the save helper as *)
(* _add_game calls it and print_helios_status, from every state of the        *)
(* catalog, the unified map and the covers directory                          *)

\* discovered apps of this specification: the uuids 1..MaxCoverApps
MaxCoverApps == 1

CoverUuids == 1..MaxCoverApps

\* any library capsule
CoverLibs ==
    {[u \in CoverUuids |-> Discovered(u, c[u])] : c \in [CoverUuids -> Sources]}

\* any image-path on the entries of discovered apps; uuid 0 is an entry of the
\* host that Helios did not discover
CoverCatalogs ==
    {LET order == SetToSeq(Present(g))
     IN  [i \in DOMAIN order |-> [uuid |-> order[i], image |-> g[order[i]]]] :
        g \in {h \in [{0} \cup CoverUuids -> {"absent"} \cup ImageKinds] :
                  h[0] \in {"absent", "cover"}}}

\* <uuid>.png files, valid or not, and a file that is no .png
CoverDirs ==
    {Restrict(g, Present(g)) :
        g \in {h \in [{CoverFile(u) : u \in {0} \cup CoverUuids} \cup {<<0, "jpg">>} ->
                         {"absent", "valid", "corrupt", "other"}] :
                  /\ h[<<0, "jpg">>] \in {"absent", "other"}
                  /\ h[CoverFile(0)] \in {"absent", "valid"}
                  /\ \A u \in CoverUuids : h[CoverFile(u)] # "other"}}

\* the state main() is in once the catalog is loaded and the map is marked
InitCoversSpec ==
    /\ AuxIdle
    /\ pc = "covers"
    /\ file \in CoverCatalogs
    /\ apps = file
    /\ by_uuid = BuildLookup(file)
    /\ \E l \in CoverLibs : libs = mark_helios_managed_apps(l, BuildLookup(file))
    /\ covers \in CoverDirs
    /\ cache = NoFile
    /\ queue = <<>>
    /\ status_map = EmptyMap
    /\ all_done = <<>>
    /\ table = EmptyMap
    /\ calls = {}
    /\ recon = NoRecon
    /\ view = NoView
    /\ sel = NoSel
    /\ last_save = NoSave

\* verify_managed_covers(all_libraries, apollo) and the re-marking after it
CoversReconcile ==
    /\ UNCHANGED aux
    /\ pc = "covers"
    /\ \E cleanup \in BOOLEAN :
          LET r == verify_managed_covers(libs, apps, by_uuid, file, covers, cleanup)
          IN  /\ apps' = r.apps
              /\ by_uuid' = r.by_uuid
              /\ file' = r.file
              /\ covers' = r.covers
              /\ libs' = mark_helios_managed_apps(libs, r.by_uuid)
              /\ recon' = ReconOf(r, libs, by_uuid, covers, cleanup)
    /\ pc' = "covered"
    /\ UNCHANGED <<cache, queue, status_map, all_done, table, calls, sel, view, last_save>>

\* _add_game of one unmanaged app with write access, and the re-marking after it
CoversAdd ==
    /\ UNCHANGED aux
    /\ pc = "covers"
    /\ \E u \in DOMAIN libs :
          LET r == _add_game(u, libs[u], TRUE, Current)
          IN  /\ r.ok
              /\ apps' = r.apps
              /\ by_uuid' = r.by_uuid
              /\ file' = r.file
              /\ covers' = r.covers
              /\ libs' = mark_helios_managed_apps(libs, r.by_uuid)
              /\ last_save' = [called |-> TRUE, uuid |-> u,
                               src |-> libs[u].library_capsule, before |-> covers,
                               ret |-> IF r.by_uuid[u].image = "" THEN None
                                       ELSE r.by_uuid[u].image]
    /\ pc' = "covered"
    /\ UNCHANGED <<cache, queue, status_map, all_done, table, calls, sel, recon, view>>

\* _remove_game of one managed app with write access, and the re-marking after it
CoversRemove ==
    /\ UNCHANGED aux
    /\ pc = "covers"
    /\ \E u \in DOMAIN libs :
          LET r == _remove_game(u, TRUE, Current)
          IN  /\ r.ok
              /\ apps' = r.apps
              /\ by_uuid' = r.by_uuid
              /\ file' = r.file
              /\ covers' = r.covers
              /\ libs' = mark_helios_managed_apps(libs, r.by_uuid)
    /\ pc' = "covered"
    /\ UNCHANGED <<cache, queue, status_map, all_done, table, calls, sel, recon, view,
                   last_save>>

\* print_helios_status
CoversStatus ==
    /\ UNCHANGED aux
    /\ pc = "covers"
    /\ view' = [shown |-> TRUE, orphaned |-> orphaned_covers(covers, libs),
                managed |-> managed_uuids(libs)]
    /\ pc' = "covered"
    /\ UNCHANGED <<libs, apps, by_uuid, file, covers, cache, queue, status_map,
                   all_done, table, calls, sel, recon, last_save>>

\* the call returns to main(), which is ready for the next one
CoversReturn ==
    /\ UNCHANGED aux
    /\ pc = "covered"
    /\ pc' = "covers"
    /\ recon' = NoRecon
    /\ view' = NoView
    /\ last_save' = NoSave
    /\ UNCHANGED <<libs, apps, by_uuid, file, covers, cache, queue, status_map,
                   all_done, table, calls, sel>>

NextCovers ==
    \/ CoversReconcile
    \/ CoversAdd
    \/ CoversRemove
    \/ CoversStatus
    \/ CoversReturn

SpecCovers == InitCoversSpec /\ [][NextCovers]_vars

-----------------------------------------------------------------------------
(* The cache refresh on its own: update_helios_cache from every cache file   *)
(* and every discovered set                                                  *)

\* the uuids of the cache file and of the discovered set are 1..MaxCached
MaxCached == 2

AppSources == {"steam", "nonsteam", "epic"}

\* a freshly discovered record
FreshRecords(u) == {[uuid |-> u, source |-> s, name |-> "fresh"] : s \in AppSources}

\* a record of the cache file: written by an earlier refresh, with or without
\* a type field, with or without a source
CachedRecords(u) ==
    {[uuid |-> u, source |-> s, name |-> "stale"] : s \in AppSources}
    \cup {[uuid |-> u, source |-> s, name |-> "stale", type |-> "game"] : s \in AppSources}
    \cup {[uuid |-> u, name |-> "stale", type |-> "game"]}

\* the maps that hold, for some of the uuids, one of their records
MapsOf(keys, records) ==
    UNION {{m \in [K -> UNION {records[u] : u \in K}] : \A u \in K : m[u] \in records[u]} :
              K \in SUBSET keys}

InitCacheSpec ==
    /\ AuxIdle
    /\ pc = "refresh"
    /\ libs \in MapsOf(1..MaxCached, [u \in 1..MaxCached |-> FreshRecords(u)])
    /\ cache \in {NoFile} \cup {CacheFile(m) : m \in MapsOf(1..MaxCached, [u \in 1..MaxCached |-> CachedRecords(u)])}
    /\ file = <<>>
    /\ apps = <<>>
    /\ by_uuid = EmptyMap
    /\ covers = EmptyMap
    /\ queue = <<>>
    /\ status_map = EmptyMap
    /\ all_done = <<>>
    /\ table = EmptyMap
    /\ calls = {}
    /\ recon = NoRecon
    /\ view = NoView
    /\ sel = NoSel
    /\ last_save = NoSave

\* update_helios_cache(libraries, selection)
CacheRefresh ==
    /\ UNCHANGED aux
    /\ pc = "refresh"
    /\ \E selection \in AppSources \cup {"all"} :
          /\ cache' = CacheFile(update_helios_cache(libs, selection, cache))
          /\ sel' = [selection |-> selection, before |-> cache]
    /\ UNCHANGED <<pc, libs, apps, by_uuid, file, covers, queue, status_map, all_done,
                   table, calls, recon, view, last_save>>

NextCache == CacheRefresh

SpecCache == InitCacheSpec /\ [][NextCache]_vars

-----------------------------------------------------------------------------
(* Functions of main() checked on their own: each call takes its arguments   *)
(* and its environment from bounded sets and records what it returned        *)

\* what main() holds besides pc
main_vars == <<libs, apps, by_uuid, file, covers, cache, queue, status_map,
               all_done, table, calls, recon, view, sel, last_save>>

MainIdle ==
    /\ libs = EmptyMap
    /\ apps = <<>>
    /\ by_uuid = EmptyMap
    /\ file = <<>>
    /\ covers = EmptyMap
    /\ cache = NoFile
    /\ queue = <<>>
    /\ status_map = EmptyMap
    /\ all_done = <<>>
    /\ table = EmptyMap
    /\ calls = {}
    /\ recon = NoRecon
    /\ view = NoView
    /\ sel = NoSel
    /\ last_save = NoSave

\* longest --type value
MaxTypeLen == 4

\* strings are sequences of characters
FilterAlphabet == {"g", "a", "m", "e", "G", ",", " "}

StrGame == <<"g", "a", "m", "e">>
StrGameTitle == <<"G", "a", "m", "e">>
StrApplication == <<"a", "p", "p", "l", "i", "c", "a", "t", "i", "o", "n">>

\* str.lower()
LowerChar(c) ==
    CASE c = "A" -> "a" [] c = "G" -> "g" [] c = "N" -> "n"
      [] c = "S" -> "s" [] c = "V" -> "v" [] OTHER -> c
Lower(str) == [i \in DOMAIN str |-> LowerChar(str[i])]

\* str.strip()
Strip(str) ==
    LET solid == {i \in DOMAIN str : str[i] # " "}
    IN  IF solid = {} THEN <<>>
        ELSE SubSeq(str, CHOOSE i \in solid : \A j \in solid : i <= j,
                         CHOOSE i \in solid : \A j \in solid : j <= i)

\* str.split(","): the pieces between the commas
SplitComma(str) ==
    {SubSeq(str, i, j) : <<i, j>> \in
        {ij \in (1..Len(str) + 1) \X (0..Len(str)) :
            /\ ij[1] <= ij[2] + 1
            /\ \A k \in ij[1]..ij[2] : str[k] # ","
            /\ ij[1] = 1 \/ str[ij[1] - 1] = ","
            /\ ij[2] = Len(str) \/ str[ij[2] + 1] = ","}}

\* term in text
IsSubstring(term, text) ==
    \E i \in 1..(Len(text) - Len(term) + 1) : SubSeq(text, i, i + Len(term) - 1) = term

\* [term.strip().lower() for part in parts for term in part.split(",") if term.strip()]
FilterTerms(parts) ==
    UNION {{Lower(Strip(term)) : term \in {t \in SplitComma(part) : Strip(t) # <<>>}} :
              part \in parts}

\* the parts "for part in args.type" runs over: --type holds one string, and
\* iterating a string yields its characters
TypeParts(value) == {<<value[i]>> : i \in DOMAIN value}

\* str(get_helios_type(all_libraries, uuid)): a record without type gives "None"
TypeText(app) == IF "type" \in DOMAIN app THEN app.type ELSE <<"N", "o", "n", "e">>

\* the type filter of list, add and remove: does an app of this type stay
type_filter(value, app) ==
    IF value = <<>> THEN TRUE
    ELSE \E term \in FilterTerms(TypeParts(value)) : IsSubstring(term, Lower(TypeText(app)))

TypeArgs == UNION {[1..n -> FilterAlphabet] : n \in 0..MaxTypeLen}
FilteredApps ==
    {[uuid |-> 1, type |-> t] : t \in {StrGame, StrGameTitle, StrApplication}} \cup {[uuid |-> 1]}

InitCalls ==
    /\ pc = "call"
    /\ MainIdle
    /\ AuxIdle

\* main() filters one app with --type
TypeFilter ==
    /\ pc = "call"
    /\ \E value \in TypeArgs, app \in FilteredApps :
          /\ input' = [op |-> "type", value |-> value, app |-> app]
          /\ result' = [op |-> "type", passes |-> type_filter(value, app)]
    /\ pc' = "called"
    /\ UNCHANGED <<env_path, env, apollo_path, apollo>>
    /\ UNCHANGED main_vars

\* most entries the uninstall registry reports
MaxInstalls == 2

StrApollo == <<"A", "p", "o", "l", "l", "o">>
StrVibepollo == <<"V", "i", "b", "e", "p", "o", "l", "l", "o">>
StrSunshine == <<"S", "u", "n", "s", "h", "i", "n", "e">>
StrSteam == <<"S", "t", "e", "a", "m">>
StrApolloSunshine == StrApollo \o <<" ">> \o StrSunshine

\* KNOWN_APOLLO_FORKS, in the order the dictionary holds its keys
KNOWN_APOLLO_FORKS ==
    << [fork |-> "Apollo", aliases |-> <<Lower(StrApollo), Lower(StrVibepollo)>>],
       [fork |-> "Sunshine", aliases |-> <<Lower(StrSunshine)>>] >>

\* mutant: the last fork with an alias in the name
displayname_matches_apollo_last(display_name) ==
    LET name == Lower(display_name)
        hits == {i \in DOMAIN KNOWN_APOLLO_FORKS :
                    \E k \in DOMAIN KNOWN_APOLLO_FORKS[i].aliases :
                        IsSubstring(KNOWN_APOLLO_FORKS[i].aliases[k], name)}
    IN  IF display_name = <<>> \/ hits = {} THEN None
        ELSE KNOWN_APOLLO_FORKS[CHOOSE i \in hits : \A j \in hits : j <= i].fork

\* displayname_matches_apollo(display_name): the first fork with an alias in the name
displayname_matches_apollo(display_name) ==
    LET name == Lower(display_name)
        hits == {i \in DOMAIN KNOWN_APOLLO_FORKS :
                    \E k \in DOMAIN KNOWN_APOLLO_FORKS[i].aliases :
                        IsSubstring(KNOWN_APOLLO_FORKS[i].aliases[k], name)}
    IN  IF display_name = <<>> \/ hits = {} THEN None
        ELSE KNOWN_APOLLO_FORKS[CHOOSE i \in hits : \A j \in hits : i <= j].fork

\* the uninstall entries the registry reports, in its order: the display name,
\* the install location ("" when the value is empty) and whether
\* <location>/Config/apps.json is a file
DisplayNames == {<<>>, StrApollo, StrVibepollo, StrSunshine, StrSteam, StrApolloSunshine}
InstallRoots == {"", "C:/A", "C:/B"}
RegistryEntries ==
    [display_name : DisplayNames, install_loc : InstallRoots, has_apps_json : BOOLEAN]
Registries == UNION {[1..n -> RegistryEntries] : n \in 0..MaxInstalls}

\* find_apollo_install(): the installs, in the order of the registry
RECURSIVE find_apollo_install(_)
find_apollo_install(registry) ==
    IF registry = <<>> THEN <<>>
    ELSE LET e == registry[Len(registry)]
             before == find_apollo_install(SubSeq(registry, 1, Len(registry) - 1))
             name == displayname_matches_apollo(e.display_name)
         IN  IF name = None \/ e.install_loc = "" \/ ~e.has_apps_json THEN before
             ELSE Append(before, [name |-> name, display_name |-> e.display_name,
                                  root |-> e.install_loc])

\* get_apollo_apps(): the root whose Config/apps.json is opened, the root of
\* the last install of the list; None when main() exits with status 1
get_apollo_apps(registry) ==
    LET installs == find_apollo_install(registry)
    IN  IF installs = <<>> THEN None ELSE installs[Len(installs)].root

\* main() resolves the install whose catalog it opens
ChooseInstall ==
    /\ pc = "call"
    /\ \E registry \in Registries :
          /\ input' = [op |-> "install", registry |-> registry]
          /\ result' = [op |-> "install", installs |-> find_apollo_install(registry),
                        root |-> get_apollo_apps(registry)]
    /\ pc' = "called"
    /\ UNCHANGED <<env_path, env, apollo_path, apollo>>
    /\ UNCHANGED main_vars

\* SteamEnvironment.get_steam_root(): the registry holds Software\Valve\Steam
\* or the lookup raises RuntimeError
get_steam_root(key_found) ==
    IF key_found THEN [raised |-> FALSE, root |-> "C:/Steam"]
    ELSE [raised |-> TRUE, root |-> None]

\* get_steam_library(): SteamEnvironment() is constructed first and nothing
\* catches what it raises; otherwise the installed steam and nonsteam apps
get_steam_library(key_found, installed) ==
    IF get_steam_root(key_found).raised THEN [raised |-> TRUE, apps |-> EmptyMap]
    ELSE [raised |-> FALSE,
          apps |-> [u \in {v \in installed : SourceOf(v) \in {"steam", "nonsteam"}} |->
                        Discovered(u, CapsuleOf(u))]]

\* get_installed_epic_games()
get_installed_epic_games(installed) ==
    [u \in {v \in installed : SourceOf(v) = "epic"} |-> Discovered(u, CapsuleOf(u))]

\* the first lines of main(): the libraries are loaded and merged; an
\* exception of a loader ends the invocation
LoadLibraries ==
    /\ pc = "call"
    /\ \E key_found \in BOOLEAN, installed \in SUBSET AnyUuid :
          LET steam_apps == get_steam_library(key_found, installed)
              epic_apps == get_installed_epic_games(installed)
          IN  /\ input' = [op |-> "load", steam_key |-> key_found, installed |-> installed]
              /\ result' = IF steam_apps.raised
                           THEN [op |-> "load", aborted |-> TRUE, all_libraries |-> EmptyMap]
                           ELSE [op |-> "load", aborted |-> FALSE,
                                 all_libraries |-> Merge(steam_apps.apps, epic_apps)]
    /\ pc' = "called"
    /\ UNCHANGED <<env_path, env, apollo_path, apollo>>
    /\ UNCHANGED main_vars

\* the values of --status tried; None when the option is not given
StatusArgs ==
    {None, "", "apollo", "Apollo", "sunshine", "steam", "nonsteam", "epic", "helios",
     "HELIOS", "gog"}

\* args.status.lower()
LowerStatus(status) ==
    CASE status = "Apollo" -> "apollo" [] status = "HELIOS" -> "helios" [] OTHER -> status

CountSource(libraries, source) ==
    Cardinality({u \in DOMAIN libraries : Get(libraries[u], "source") = source})

\* print_library_info(library_name, ...): the view it prints
print_library_info(library_name, libraries) ==
    IF library_name = "apollo" THEN [view |-> "install"]
    ELSE IF library_name = "steam"
    THEN [view |-> "steam",
          total |-> CountSource(libraries, "steam") + CountSource(libraries, "nonsteam"),
          steam |-> CountSource(libraries, "steam"),
          nonsteam |-> CountSource(libraries, "nonsteam")]
    ELSE IF library_name = "nonsteam"
    THEN [view |-> "nonsteam", nonsteam |-> CountSource(libraries, "nonsteam")]
    ELSE IF library_name = "epic"
    THEN [view |-> "epic", epic |-> CountSource(libraries, "epic")]
    ELSE [view |-> "nothing"]

\* the status workflow of main(): the view --status prints
status_workflow(status, libraries) ==
    IF status \in {None, ""} THEN [view |-> "nothing"]
    ELSE LET library == LowerStatus(status)
         IN  IF library = "apollo" THEN print_library_info(library, libraries)
             ELSE IF library \in {"steam", "nonsteam"} THEN print_library_info(library, libraries)
             ELSE IF library = "epic" THEN print_library_info(library, libraries)
             ELSE IF library = "" \/ library = "helios"
             THEN [view |-> "summary", managed |-> managed_uuids(libraries)]
             ELSE [view |-> "unknown library"]

\* main() with --status
StatusDispatch ==
    /\ pc = "call"
    /\ \E status \in StatusArgs, installed \in SUBSET AnyUuid :
          LET libraries == [u \in installed |-> Discovered(u, CapsuleOf(u))]
          IN  /\ input' = [op |-> "status", status |-> status, libraries |-> libraries]
              /\ result' = [op |-> "status", printed |-> status_workflow(status, libraries)]
    /\ pc' = "called"
    /\ UNCHANGED <<env_path, env, apollo_path, apollo>>
    /\ UNCHANGED main_vars

\* --- non-Steam ids (src/steam/steam.py) ---

\* A Python int is its little-endian bytes, as many as it needs; a str of
\* digits is the sequence of its decimal digits, most significant first.
ByteValues == {0, 1, 2, 127, 128, 255}

\* the value without its leading (most significant) zero bytes
RECURSIVE Norm(_)
Norm(n) ==
    IF n = <<>> THEN <<>>
    ELSE IF n[Len(n)] = 0 THEN Norm(SubSeq(n, 1, Len(n) - 1))
    ELSE n

ByteAt(n, i) == IF i \in DOMAIN n THEN n[i] ELSE 0

RECURSIVE BitOr(_, _)
BitOr(x, y) ==
    IF x = 0 THEN y
    ELSE IF y = 0 THEN x
    ELSE 2 * BitOr(x \div 2, y \div 2) + (IF x % 2 = 1 \/ y % 2 = 1 THEN 1 ELSE 0)

\* a | b
Or(a, b) ==
    [i \in 1..(IF Len(a) > Len(b) THEN Len(a) ELSE Len(b)) |->
        BitOr(ByteAt(a, i), ByteAt(b, i))]

\* n & 0xFFFFFFFF
Low32(n) == [i \in 1..4 |-> ByteAt(n, i)]

\* n << 32
Shl32(n) == <<0, 0, 0, 0>> \o n

\* n >> 32
Shr32(n) == IF Len(n) <= 4 THEN <<>> ELSE SubSeq(n, 5, Len(n))

\* 0x02000000
ShortcutTag == <<0, 0, 0, 2>>

convert_nonsteam_id_unshifted(appID32) == Or(Low32(appID32), ShortcutTag)

\* convert_nonsteam_id
convert_nonsteam_id(appID32) == Or(Shl32(Low32(appID32)), ShortcutTag)

\* raw_appID.to_bytes(4, "little", signed=True) for an int of the signed
\* 32-bit range
to_bytes_signed(raw) == [i \in 1..4 |-> (raw \div (256 ^ (i - 1))) % 256]

\* raw_appID[:4].ljust(4, b"\x00")
ljust4(raw) == [i \in 1..4 |-> ByteAt(raw, i)]

\* n // 10 and n % 10 by long division from the most significant byte
RECURSIVE DivTen(_, _, _)
DivTen(n, i, carry) ==
    IF i = 0 THEN [quotient |-> <<>>, remainder |-> carry]
    ELSE LET cur == carry * 256 + n[i]
             rest == DivTen(n, i - 1, cur % 10)
         IN  [quotient |-> Append(rest.quotient, cur \div 10),
              remainder |-> rest.remainder]

\* str(n)
RECURSIVE DecimalStr(_)
DecimalStr(n) ==
    LET v == Norm(n)
        d == DivTen(v, Len(v), 0)
    IN  IF v = <<>> THEN <<0>>
        ELSE IF Norm(d.quotient) = <<>> THEN <<d.remainder>>
        ELSE DecimalStr(d.quotient) \o <<d.remainder>>

\* n * 10 + digit
RECURSIVE TimesTenPlus(_, _)
TimesTenPlus(n, carry) ==
    IF n = <<>> THEN (IF carry = 0 THEN <<>> ELSE <<carry>>)
    ELSE LET v == Head(n) * 10 + carry
         IN  <<v % 256>> \o TimesTenPlus(Tail(n), v \div 256)

\* int(digits)
RECURSIVE ParseInt(_)
ParseInt(digits) ==
    IF digits = <<>> THEN <<>>
    ELSE TimesTenPlus(ParseInt(SubSeq(digits, 1, Len(digits) - 1)), digits[Len(digits)])

\* the appid field of a shortcut entry: an int of the signed 32-bit range, or bytes
RawInts ==
    {-2147483647 - 1, -2147483647, -33554432, -256, -1, 0, 1, 255, 256, 65536,
     33554432, 2147483646, 2147483647}
RawBytes == [1..4 -> ByteValues] \cup [1..2 -> {1, 255}] \cup [1..5 -> {0, 255}]

\* one shortcut entry through get_nonsteam_apps and, with the appID it was
\* given there, through get_nonsteam_assets
nonsteam_ids(raw_bytes) ==
    LET appID32 == raw_bytes
        appID64 == convert_nonsteam_id(appID32)
        \* "appID": str(appID64)
        appID == DecimalStr(appID64)
    IN  [appID32 |-> appID32, appID64 |-> appID64, appID |-> appID,
         \* appID32 = str(int(appID64) >> 32)
         grid_id |-> DecimalStr(Shr32(ParseInt(appID)))]

NonSteamId ==
    /\ pc = "call"
    /\ \/ \E raw \in RawInts :
             /\ input' = [op |-> "nonsteam_id", type |-> "int", raw |-> raw]
             /\ result' = Merge([op |-> "nonsteam_id"], nonsteam_ids(to_bytes_signed(raw)))
       \/ \E raw \in RawBytes :
             /\ input' = [op |-> "nonsteam_id", type |-> "bytes", raw |-> raw]
             /\ result' = Merge([op |-> "nonsteam_id"], nonsteam_ids(ljust4(raw)))
    /\ pc' = "called"
    /\ UNCHANGED <<env_path, env, apollo_path, apollo>>
    /\ UNCHANGED main_vars

\* --- discovery scans (src/steam/steam.py, src/epic/epic.py) ---

\* most items of one scan
MaxScan == 2

\* An item of a scan is what the code finds wrong with it, if anything.
\*   manifest:  "ok" | "no_digits" (the name has no app id) | "no_appinfo"
\*              (the id is not in the parsed appinfo) | "no_name"
\*   shortcut:  the appid field: "int" (fits 4 signed bytes) | "bytes" |
\*              "other" (neither int nor bytes) | "wide_int" (an int outside
\*              the signed 32-bit range)
\*   .item:     "ok" | "unreadable" (no JSON) | "not_mapping" | "not_game" |
\*              "incomplete" | "null_categories" (AppCategories is null)
ManifestKinds == {"ok", "no_digits", "no_appinfo", "no_name"}
ShortcutKinds == {"int", "bytes", "other", "wide_int"}
ItemKinds == {"ok", "unreadable", "not_mapping", "not_game", "incomplete", "null_categories"}

ScansOf(kinds) == UNION {[1..n -> kinds] : n \in 0..MaxScan}

\* a scan returns the positions of the items it kept, or raises
Returned(kept) == [raised |-> "none", apps |-> kept]
Raised(error) == [raised |-> error, apps |-> {}]

\* get_installed_steam_apps: the regex and the try/except leave a bad manifest out
get_installed_steam_apps(manifests) ==
    Returned({i \in DOMAIN manifests : manifests[i] = "ok"})

\* get_nonsteam_apps: the loop over the shortcut entries from entry i on
RECURSIVE get_nonsteam_apps(_, _, _)
get_nonsteam_apps(entries, i, kept) ==
    IF i > Len(entries) THEN Returned(kept)
    \* raw_appID.to_bytes(4, "little", signed=True) raises OverflowError
    ELSE IF entries[i] = "wide_int" THEN Raised("OverflowError")
    \* bytes are cut or padded, anything else gets the hash of the name
    ELSE get_nonsteam_apps(entries, i + 1, kept \cup {i})

\* EpicLibrary.iter_items: an EpicItem that cannot be constructed is left out
iter_items(items) == {i \in DOMAIN items : items[i] \notin {"unreadable", "not_mapping"}}

\* EpicLibrary.games over iter_items, from item i on
RECURSIVE games(_, _, _)
games(items, i, kept) ==
    IF i > Len(items) THEN Returned(kept)
    ELSE IF i \notin iter_items(items) THEN games(items, i + 1, kept)
    \* "games" in None raises TypeError
    ELSE IF items[i] = "null_categories" THEN Raised("TypeError")
    ELSE IF items[i] = "ok" THEN games(items, i + 1, kept \cup {i})
    ELSE games(items, i + 1, kept)

Discover ==
    /\ pc = "call"
    /\ \/ \E manifests \in ScansOf(ManifestKinds) :
             /\ input' = [op |-> "discover", scan |-> "steam", items |-> manifests]
             /\ result' = Merge([op |-> "discover"], get_installed_steam_apps(manifests))
       \/ \E entries \in ScansOf(ShortcutKinds) :
             /\ input' = [op |-> "discover", scan |-> "nonsteam", items |-> entries]
             /\ result' = Merge([op |-> "discover"], get_nonsteam_apps(entries, 1, {}))
       \/ \E items \in ScansOf(ItemKinds) :
             /\ input' = [op |-> "discover", scan |-> "epic", items |-> items]
             /\ result' = Merge([op |-> "discover"], games(items, 1, {}))
    /\ pc' = "called"
    /\ UNCHANGED <<env_path, env, apollo_path, apollo>>
    /\ UNCHANGED main_vars

\* --- the Helios cache file as update_helios_cache finds it ---

\* what the cache file parses to: a uuid -> record object, an object whose
\* values are no records, a list, or a scalar
CacheShapes == {"records", "bad_values", "list", "scalar"}

\* update_helios_cache(libraries, selection) on a cache file that exists and
\* parses: the error that escapes, if any, and whether the file was written.
\* included tells whether apps_to_include holds an app.
update_helios_cache_on(shape, selection, included) ==
    IF selection = "all"
    THEN \* current_cache.clear(): lists and dicts have it, scalars do not
         IF shape = "scalar" THEN [raised |-> "AttributeError", written |-> FALSE]
         \* current_cache.get(uuid, {}) in the merge loop
         ELSE IF shape = "list" /\ included
         THEN [raised |-> "AttributeError", written |-> FALSE]
         ELSE [raised |-> "none", written |-> TRUE]
    ELSE \* current_cache.items(), then app_data.get("source") on each value
         IF shape \in {"scalar", "list", "bad_values"}
         THEN [raised |-> "AttributeError", written |-> FALSE]
         ELSE [raised |-> "none", written |-> TRUE]

\* verify_helios_cache and the refreshes of main() up to the first error:
\* the cache file exists, so verify_helios_cache does nothing, and the
\* startup refresh with selection "all" comes first
CacheStartup ==
    /\ pc = "call"
    /\ \E shape \in CacheShapes, included \in BOOLEAN,
          selection \in {None, "all", "steam", "epic", "nonsteam"} :
          LET startup == update_helios_cache_on(shape, "all", included)
              \* handle_cache_option runs on what the startup refresh wrote
              option == IF startup.raised # "none" \/ selection = None THEN startup
                        ELSE update_helios_cache_on("records", selection, included)
          IN  /\ input' = [op |-> "cache_startup", shape |-> shape,
                           included |-> included, selection |-> selection]
              /\ result' = [op |-> "cache_startup", raised |-> option.raised,
                            written |-> startup.written \/ option.written]
    /\ pc' = "called"
    /\ UNCHANGED <<env_path, env, apollo_path, apollo>>
    /\ UNCHANGED main_vars

\* --- sort_apps ---

\* most apps of a sorted listing
MaxSorted == 2

\* the code point of a character
CodePoint(c) ==
    CASE c = "A" -> 65 [] c = "G" -> 71 [] c = "N" -> 78 [] c = "S" -> 83 [] c = "V" -> 86
      [] c = "a" -> 97 [] c = "e" -> 101 [] c = "g" -> 103 [] c = "n" -> 110
      [] c = "s" -> 115 [] c = "v" -> 118 [] OTHER -> 32

\* str < str: the first difference decides, a proper prefix comes first
StrLess(a, b) ==
    \/ \E k \in DOMAIN a \cap DOMAIN b :
          /\ \A j \in 1..(k - 1) : a[j] = b[j]
          /\ CodePoint(a[k]) < CodePoint(b[k])
    \/ Len(a) < Len(b) /\ \A j \in DOMAIN a : a[j] = b[j]

\* the apps a listing may hold: uuid, name and source are strings
SortedPool ==
    { [uuid |-> <<"A">>, name |-> <<"g">>, source |-> <<"s">>, managed_by_helios |-> TRUE],
      [uuid |-> <<"g">>, name |-> <<"G">>, source |-> <<"e">>, managed_by_helios |-> FALSE],
      [uuid |-> <<"G", "a">>, name |-> <<"a">>, source |-> <<"S">>, managed_by_helios |-> TRUE],
      [uuid |-> <<"a">>, name |-> <<"A">>, source |-> <<"e">>, managed_by_helios |-> FALSE],
      [uuid |-> <<"s">>, name |-> <<"g", "a">>, source |-> <<"s">>, managed_by_helios |-> FALSE] }

\* apps.values() of a dict keyed by uuid: no uuid twice
AppListings ==
    UNION {{l \in [1..n -> SortedPool] : \A i, j \in 1..n : l[i] = l[j] => i = j} :
              n \in 0..MaxSorted}

\* the values of --sort: argparse declares no choices, so any string is taken
SortKeys == {None, "", "name", "source", "uuid", "managed", "type"}

\* sorted(values, key=..., reverse=...): the keys in ascending (descending)
\* order, values of equal keys in their input order. A key is a str; a bool
\* key is given as a one-character str, that of True after that of False.
sorted(values, keys, reverse) ==
    LET before(j, i) == IF keys[j] = keys[i] THEN j < i
                        ELSE IF reverse THEN StrLess(keys[i], keys[j])
                        ELSE StrLess(keys[j], keys[i])
    IN  [p \in DOMAIN values |->
            values[CHOOSE i \in DOMAIN values :
                      Cardinality({j \in DOMAIN values : before(j, i)}) = p - 1]]

\* sort_apps(apps, sort_key) on apps.values()
sort_apps(values, sort_key) ==
    IF sort_key \in {None, ""} THEN [returned |-> TRUE, rows |-> values]
    ELSE IF sort_key = "name"
    THEN [returned |-> TRUE,
          rows |-> sorted(values, [i \in DOMAIN values |-> Lower(values[i].name)], FALSE)]
    ELSE IF sort_key = "source"
    THEN [returned |-> TRUE,
          rows |-> sorted(values, [i \in DOMAIN values |-> Lower(values[i].source)], FALSE)]
    ELSE IF sort_key = "uuid"
    THEN [returned |-> TRUE,
          rows |-> sorted(values, [i \in DOMAIN values |-> Lower(values[i].uuid)], FALSE)]
    ELSE IF sort_key = "managed"
    THEN [returned |-> TRUE,
          rows |-> sorted(values,
                          [i \in DOMAIN values |->
                              IF values[i].managed_by_helios THEN <<"e">> ELSE <<"a">>],
                          TRUE)]
    \* no branch is left: the function returns None
    ELSE [returned |-> FALSE, rows |-> <<>>]

SortApps ==
    /\ pc = "call"
    /\ \E values \in AppListings, sort_key \in SortKeys :
          /\ input' = [op |-> "sort", values |-> values, sort_key |-> sort_key]
          /\ result' = Merge([op |-> "sort"], sort_apps(values, sort_key))
    /\ pc' = "called"
    /\ UNCHANGED <<env_path, env, apollo_path, apollo>>
    /\ UNCHANGED main_vars

\* --- the add and remove workflows: which apps are offered and processed ---

\* most comma-separated pieces of an answer to the prompt
MaxPieces == 2

\* all_libraries in map order; the second and third app may be managed
WorkflowLibraries(m1, m2) ==
    << [uuid |-> 1, name |-> <<"a">>, source |-> <<"s">>, type |-> StrGame,
        managed_by_helios |-> m1],
       [uuid |-> 2, name |-> <<"g">>, source |-> <<"e">>, type |-> StrApplication,
        managed_by_helios |-> m2],
       [uuid |-> 3, name |-> <<"g", "a">>, source |-> <<"s">>, type |-> StrGame,
        managed_by_helios |-> m1] >>

\* args.add / args.remove: bool(args) and parse_uuid_args(args). A bare flag
\* gives [], the argument "," gives a non-empty list that holds no uuid.
UuidArgs ==
    { [given |-> FALSE, uuids |-> <<>>], [given |-> TRUE, uuids |-> <<>>],
      [given |-> TRUE, uuids |-> <<1>>], [given |-> TRUE, uuids |-> <<4>>],
      [given |-> TRUE, uuids |-> <<2, 1>>] }

\* the pieces of an answer: decimal digits, a letter, and a superscript two
Pieces == {"0", "1", "2", "x", "^2"}

\* input(...).strip().lower(): one of the words, or pieces joined by commas
Selections ==
    {[kind |-> "word", word |-> w] : w \in {"", "q", "quit", "exit", "all"}}
        \cup {[kind |-> "pieces", pieces |-> ps] :
                 ps \in UNION {[1..n -> Pieces] : n \in 1..MaxPieces}}

\* x.strip().isdigit(): true of the superscript digits as well
isdigit(x) == x \in {"0", "1", "2", "^2"}

\* int(x) of a piece isdigit() accepts: ValueError on a superscript digit
IntRaises(x) == x = "^2"
IntOf(x) == CASE x = "0" -> 0 [] x = "1" -> 1 [] x = "2" -> 2 [] OTHER -> 0

\* the search and source filters of one app; an option not given holds no part
search_filter(search, app) ==
    search = {} \/ \E term \in FilterTerms(search) : IsSubstring(term, Lower(app.name))
source_filter(source, app) ==
    source = {} \/ Lower(app.source) \in FilterTerms(source)

\* the workflow of --add (kind "add") or --remove (kind "remove") up to the
\* loop over explicit_apps + selected_apps
workflow(kind, libraries, arg, search, type, source, selection) ==
    LET IsCandidate(a) == a.managed_by_helios = (kind = "remove")
        candidates == SelectSeq(libraries, IsCandidate)
        Found(u) == \E i \in DOMAIN candidates : candidates[i].uuid = u
        found == SelectSeq(arg.uuids, Found)
        explicit_apps ==
            [i \in DOMAIN found |->
                candidates[CHOOSE k \in DOMAIN candidates : candidates[k].uuid = found[i]]]
        explicit_uuid_set == {found[i] : i \in DOMAIN found}
        NotExplicit(a) == a.uuid \notin explicit_uuid_set
        filters_present == search # {} \/ source # {} \/ type # <<>>
        Passes(a) == search_filter(search, a) /\ type_filter(type, a) /\ source_filter(source, a)
        interactive_pool ==
            IF filters_present \/ ~arg.given
            THEN SelectSeq(SelectSeq(candidates, NotExplicit), Passes)
            ELSE <<>>
        prompted == interactive_pool # <<>>
        numbers == IF prompted /\ selection.kind = "pieces"
                   THEN {selection.pieces[i] : i \in {j \in DOMAIN selection.pieces :
                                                         isdigit(selection.pieces[j])}}
                   ELSE {}
        indices == {IntOf(x) - 1 : x \in numbers}
        Chosen(a) == \E i \in indices : i + 1 \in DOMAIN interactive_pool
                                        /\ interactive_pool[i + 1] = a
        selected_apps ==
            IF ~prompted \/ (selection.kind = "word" /\ selection.word # "all") THEN <<>>
            ELSE IF selection.kind = "word" THEN interactive_pool
            ELSE SelectSeq(interactive_pool, Chosen)
    IN  IF \E x \in numbers : IntRaises(x)
        THEN [raised |-> "ValueError", pool |-> interactive_pool, prompted |-> prompted,
              explicit |-> explicit_apps, processed |-> <<>>]
        ELSE [raised |-> "none", pool |-> interactive_pool, prompted |-> prompted,
              explicit |-> explicit_apps, processed |-> explicit_apps \o selected_apps]

Workflow ==
    /\ pc = "call"
    /\ \E kind \in {"add", "remove"}, m1, m2 \in BOOLEAN, arg \in UuidArgs,
          search \in {{}, {<<"a">>}}, type \in {<<>>, StrGame},
          source \in {{}, {<<"S">>}}, selection \in Selections :
          /\ input' = [op |-> "workflow", kind |-> kind,
                       libraries |-> WorkflowLibraries(m1, m2), arg |-> arg,
                       search |-> search, type |-> type, source |-> source,
                       selection |-> selection]
          /\ result' = Merge([op |-> "workflow"],
                             workflow(kind, WorkflowLibraries(m1, m2), arg,
                                      search, type, source, selection))
    /\ pc' = "called"
    /\ UNCHANGED <<env_path, env, apollo_path, apollo>>
    /\ UNCHANGED main_vars

\* the call returns and main() is ready for the next one
CallReturn ==
    /\ pc = "called"
    /\ pc' = "call"
    /\ input' = NoCall
    /\ result' = NoCall
    /\ UNCHANGED <<env_path, env, apollo_path, apollo>>
    /\ UNCHANGED main_vars

NextCalls ==
    \/ TypeFilter
    \/ ChooseInstall
    \/ LoadLibraries
    \/ StatusDispatch
    \/ NonSteamId
    \/ Discover
    \/ CacheStartup
    \/ SortApps
    \/ Workflow
    \/ CallReturn

SpecCalls == InitCalls /\ [][NextCalls]_vars

-----------------------------------------------------------------------------
(* The catalog models with whole entries: EnvironmentAppsJSON (generic) and  *)
(* ApolloAppsJSON (legacy) on a file of their own, and the steps of          *)
(* _add_game, _remove_game and verify_managed_covers on the object they hold *)

\* most entries of a catalog
MaxEntries == 2

\* a catalog entry is a JSON object: field -> value. Entries of the host may
\* lack a uuid and carry fields Helios does not know
CatalogUuids == {"U1", "U2"}
AbsoluteImages == {"C:/art/a.png", "C:/covers/cover.png"}
RelativeImages == {"b.png"}
EntryPool ==
    { [uuid |-> "U1", name |-> "one", image_path |-> "C:/art/a.png", detached |-> "x"],
      [uuid |-> "U2", name |-> "two", image_path |-> "b.png"],
      [uuid |-> "U2", name |-> "two", image_path |-> ""],
      [name |-> "host", detached |-> "y"] }

EntryLists == UNION {[1..n -> EntryPool] : n \in 0..MaxEntries}

\* json.dump / json.load of one object: the text holds its key-value pairs
DumpObject(obj) == {<<k, obj[k]>> : k \in DOMAIN obj}
LoadObject_one_key(pairs) ==
    LET first == CHOOSE p \in pairs : TRUE
    IN  [k \in {first[1]} |-> first[2]]

LoadObject(pairs) ==
    [k \in {p[1] : p \in pairs} |-> (CHOOSE p \in pairs : p[1] = k)[2]]

DumpList(items) == [i \in DOMAIN items |-> DumpObject(items[i])]
LoadList(texts) == [i \in DOMAIN texts |-> LoadObject(texts[i])]

\* the text of a catalog file: what it parses to at the top level, the value
\* under "apps" and the other top-level keys
\*   top:  "object" | "list" (a JSON document that is no mapping)
\*   apps: [kind |-> "absent" | "null" | "string" | "object" | "list", items]
\*   rest: the other top-level keys, key -> value
FileText(apps_kind, items, rest) ==
    [exists |-> TRUE, top |-> "object",
     apps |-> [kind |-> apps_kind, items |-> DumpList(items)], rest |-> rest]

NotAMapping ==
    [exists |-> TRUE, top |-> "list", apps |-> [kind |-> "absent", items |-> <<>>],
     rest |-> EmptyMap]

\* the other top-level keys a host may keep in apps.json
RestKeys == {EmptyMap, [env |-> "PATH"]}

ValidFiles == {FileText("list", items, rest) : items \in EntryLists, rest \in RestKeys}

InvalidFiles ==
    {NotAMapping} \cup
    {FileText(kind, <<>>, rest) : kind \in {"absent", "null", "string", "object"},
                                  rest \in RestKeys}

\* self.by_uuid = {app["uuid"]: app for app in self.apps if "uuid" in app}
LookupOf(items) ==
    [u \in {items[i].uuid : i \in {j \in DOMAIN items : "uuid" \in DOMAIN items[j]}} |->
        items[CHOOSE i \in DOMAIN items :
                 /\ "uuid" \in DOMAIN items[i]
                 /\ items[i].uuid = u
                 /\ \A j \in DOMAIN items :
                       ("uuid" \in DOMAIN items[j] /\ items[j].uuid = u) => j <= i]]

\* the object once __init__ has run on a parsed mapping that has the key
\* "apps": self.data (its other keys and, as stored, the list under "apps"),
\* self.apps (the same list: shared) and self.by_uuid. Iterating
\* a list gives its entries; iterating a string gives characters and
\* iterating a mapping gives keys, none of which holds "uuid" here, so the
\* lookup stays empty; iterating null raises TypeError
Constructed(text, root) ==
    [open |-> TRUE, data |-> text.rest,
     apps |-> [kind |-> text.apps.kind, items |-> LoadList(text.apps.items)],
     by_uuid |-> LookupOf(LoadList(text.apps.items)), root |-> root,
     stored |-> LoadList(text.apps.items), shared |-> TRUE]

\* _load_apps_json and the rest of __init__ on a file that exists
LoadExisting(text, root) ==
    IF text.top # "object" \/ text.apps.kind = "absent"
    THEN [raised |-> "RuntimeError", model |-> NoModel]
    ELSE IF text.apps.kind = "null"
    THEN [raised |-> "TypeError", model |-> NoModel]
    ELSE [raised |-> "none", model |-> Constructed(text, root)]

\* EnvironmentAppsJSON(apps_json_path, root): a missing file is created with
\* an empty app list first
Env_init(text, root) ==
    LET created == IF text.exists THEN text ELSE FileText("list", <<>>, EmptyMap)
        loaded == LoadExisting(created, root)
    IN  [file |-> created, raised |-> loaded.raised, model |-> loaded.model]

\* ApolloAppsJSON(apps_json_path, root): a missing file raises FileNotFoundError
Apollo_init(text, root) ==
    IF ~text.exists THEN [file |-> text, raised |-> "FileNotFoundError", model |-> NoModel]
    ELSE LET loaded == LoadExisting(text, root)
         IN  [file |-> text, raised |-> loaded.raised, model |-> loaded.model]

\* save(): json.dump(self.data, f)
Catalog_save(model) ==
    [exists |-> TRUE, top |-> "object",
     apps |-> [kind |-> model.apps.kind, items |-> DumpList(model.stored)],
     rest |-> model.data]

CatalogRoots == {None, "C:/Apollo"}

\* the cover file save_library_capsule writes
SavedCover == "C:/covers/cover.png"

\* the object can be worked on: it was constructed and self.apps is a list
Usable(model) == model.open /\ model.apps.kind = "list"

\* the list self.apps is changed in place: data["apps"] shows the change
\* while it is the same list
SetItems(model, items) ==
    [model EXCEPT !.apps = [kind |-> "list", items |-> items],
                  !.stored = IF model.shared THEN items ELSE @]

\* self.apps = [...]: a new list
Rebind(model, items) ==
    [model EXCEPT !.apps = [kind |-> "list", items |-> items], !.shared = FALSE]

\* self.data["apps"] = self.apps
StoreApps(model) == [model EXCEPT !.stored = model.apps.items, !.shared = TRUE]

\* a returned value that may be None
Absent == [none |-> TRUE]
Some(value) == [none |-> FALSE, value |-> value]

\* --- EnvironmentAppsJSON ---

Env_get_app_by_uuid(model, uuid) ==
    IF uuid \in DOMAIN model.by_uuid THEN Some(model.by_uuid[uuid]) ELSE Absent

Env_filter_apps(model, criteria) ==
    SelectSeq(model.apps.items,
              LAMBDA app : \A k \in DOMAIN criteria : Get(app, k) = criteria[k])

Env_remove_app_by_uuid(model, uuid) ==
    IF uuid \notin DOMAIN model.by_uuid
    THEN [returned |-> FALSE, model |-> model]
    ELSE [returned |-> TRUE,
          model |-> [StoreApps(Rebind(model, SelectSeq(model.apps.items,
                                               LAMBDA a : Get(a, "uuid") # uuid)))
                     EXCEPT !.by_uuid = [u \in DOMAIN model.by_uuid \ {uuid} |->
                                            model.by_uuid[u]]]]

\* a path is its components; an absolute image path is one component
Env_get_image_path(model, uuid) ==
    LET app == Env_get_app_by_uuid(model, uuid)
    IN  IF app.none THEN Absent
        ELSE LET img_path == Get(app.value, "image_path")
             IN  IF img_path = None \/ img_path = "" THEN Absent
                 ELSE IF img_path \in AbsoluteImages THEN Some(<<img_path>>)
                 ELSE IF model.root # None THEN Some(<<model.root, "assets", img_path>>)
                 ELSE Some(<<img_path>>)

\* --- ApolloAppsJSON ---

Apollo_get_app_by_uuid(model, uuid) ==
    IF uuid \in DOMAIN model.by_uuid THEN Some(model.by_uuid[uuid]) ELSE Absent

\* the loop leaves an app out at the first criterion it fails
Apollo_filter_apps(model, criteria) ==
    SelectSeq(model.apps.items,
              LAMBDA app : ~ \E key \in DOMAIN criteria : Get(app, key) # criteria[key])

Apollo_remove_app_by_uuid_keep_list(model, uuid) ==
    LET app == Apollo_get_app_by_uuid(model, uuid)
        popped == [model EXCEPT !.by_uuid = [u \in DOMAIN model.by_uuid \ {uuid} |->
                                                model.by_uuid[u]]]
    IN  IF app.none \/ DOMAIN app.value = {}
        THEN [returned |-> FALSE, model |-> popped]
        ELSE [returned |-> TRUE, model |-> popped]

\* app = self.by_uuid.pop(uuid, None); an empty dict counts as not found
Apollo_remove_app_by_uuid(model, uuid) ==
    LET app == Apollo_get_app_by_uuid(model, uuid)
        popped == [model EXCEPT !.by_uuid = [u \in DOMAIN model.by_uuid \ {uuid} |->
                                                model.by_uuid[u]]]
    IN  IF app.none \/ DOMAIN app.value = {}
        THEN [returned |-> FALSE, model |-> popped]
        ELSE [returned |-> TRUE,
              model |-> StoreApps(Rebind(popped, SelectSeq(model.apps.items,
                                                   LAMBDA a : Get(a, "uuid") # uuid)))]

Apollo_get_image_path_raw(model, uuid) ==
    LET app == Apollo_get_app_by_uuid(model, uuid)
    IN  IF app.none THEN Absent
        ELSE LET img_path == Get(app.value, "image_path")
             IN  IF img_path = None \/ img_path = "" THEN Absent
                 ELSE Some(<<img_path>>)

Apollo_get_image_path(model, uuid) ==
    LET app == Apollo_get_app_by_uuid(model, uuid)
    IN  IF app.none THEN Absent
        ELSE LET img_path == Get(app.value, "image_path")
             IN  IF img_path = None \/ img_path = "" THEN Absent
                 ELSE IF img_path \in AbsoluteImages THEN Some(<<img_path>>)
                 ELSE IF model.root # None THEN Some(<<model.root, "assets", img_path>>)
                 ELSE Some(<<img_path>>)

\* --- the steps of helios.py on the object it holds ---

\* mutant: the entry goes to a new list that self.data does not hold
AppendEntry_detached(model, entry) ==
    [Rebind(model, Append(model.apps.items, entry))
     EXCEPT !.by_uuid = IF "uuid" \in DOMAIN entry
                        THEN Put(model.by_uuid, entry.uuid, entry)
                        ELSE model.by_uuid]

\* apps.append(app_entry); by_uuid[uuid] = app_entry
AppendEntry(model, entry) ==
    [SetItems(model, Append(model.apps.items, entry))
     EXCEPT !.by_uuid = IF "uuid" \in DOMAIN entry
                        THEN Put(model.by_uuid, entry.uuid, entry)
                        ELSE model.by_uuid]

\* the entry _add_game builds
app_entry(uuid, image_path) ==
    [uuid |-> uuid, name |-> "new", cmd |-> "", image_path |-> image_path]

DropEntries_known_only(model, uuid) ==
    [StoreApps(Rebind(model, SelectSeq(model.apps.items,
                               LAMBDA app : "uuid" \in DOMAIN app /\ app.uuid # uuid)))
     EXCEPT !.by_uuid = [u \in DOMAIN model.by_uuid \ {uuid} |-> model.by_uuid[u]]]

DropEntries_not_stored(model, uuid) ==
    [Rebind(model, SelectSeq(model.apps.items, LAMBDA app : Get(app, "uuid") # uuid))
     EXCEPT !.by_uuid = [u \in DOMAIN model.by_uuid \ {uuid} |-> model.by_uuid[u]]]

\* apollo.apps = [...]; apollo.by_uuid.pop(uuid, None); apollo.data["apps"] = apollo.apps
DropEntries(model, uuid) ==
    [StoreApps(Rebind(model, SelectSeq(model.apps.items,
                                       LAMBDA app : Get(app, "uuid") # uuid)))
     EXCEPT !.by_uuid = [u \in DOMAIN model.by_uuid \ {uuid} |-> model.by_uuid[u]]]

\* the entry the lookup holds is the last one of the list with that uuid
LookupIndex(items, uuid) ==
    CHOOSE i \in DOMAIN items :
        /\ Get(items[i], "uuid") = uuid
        /\ \A j \in DOMAIN items : Get(items[j], "uuid") = uuid => j <= i

\* apollo_app["image-path"] = saved, on the entry the lookup holds
SetImagePath(model, uuid, saved) ==
    LET i == LookupIndex(model.apps.items, uuid)
        changed == Put(model.apps.items[i], "image_path", saved)
    IN  [SetItems(model, [model.apps.items EXCEPT ![i] = changed])
         EXCEPT !.by_uuid = Put(model.by_uuid, uuid, changed)]

\* what a step is called with, and the objects and files it finds
Call(op, arg) ==
    [op |-> op, arg |-> arg, env_path |-> env_path, apollo_path |-> apollo_path,
     env |-> env, apollo |-> apollo]

NotCalled == [skipped |-> TRUE]

Criteria ==
    {EmptyMap, [uuid |-> "U1"], [name |-> "host", image_path |-> None],
     [detached |-> None]}

AskedUuids == CatalogUuids \cup {"U9"}

InitCatalog ==
    /\ pc = "catalog"
    /\ MainIdle
    /\ input = NoCall
    /\ result = NoCall
    /\ env_path \in {Missing} \cup ValidFiles \cup InvalidFiles
    /\ apollo_path = env_path
    /\ env = NoModel
    /\ apollo = NoModel

\* both classes are constructed on their file; an object that exists is
\* dropped for the fresh one
CatalogOpen ==
    /\ pc = "catalog"
    /\ \E root \in CatalogRoots :
          LET e == Env_init(env_path, root)
              a == Apollo_init(apollo_path, root)
          IN  /\ env_path' = e.file
              /\ env' = e.model
              /\ apollo_path' = a.file
              /\ apollo' = a.model
              /\ input' = Call("open", root)
              /\ result' = [op |-> "open", env |-> e.raised, apollo |-> a.raised]
    /\ pc' = "returned"
    /\ UNCHANGED main_vars

\* the call returns
CatalogReturn ==
    /\ pc = "returned"
    /\ pc' = "catalog"
    /\ input' = NoCall
    /\ result' = NoCall
    /\ UNCHANGED <<env_path, env, apollo_path, apollo>>
    /\ UNCHANGED main_vars

\* the same query or change on each object that is there
CatalogGet ==
    /\ pc = "catalog"
    /\ Usable(env) \/ Usable(apollo)
    /\ \E uuid \in AskedUuids :
          /\ input' = Call("get", uuid)
          /\ result' = [op |-> "get",
                        env |-> IF Usable(env) THEN Env_get_app_by_uuid(env, uuid)
                                ELSE NotCalled,
                        apollo |-> IF Usable(apollo) THEN Apollo_get_app_by_uuid(apollo, uuid)
                                   ELSE NotCalled]
    /\ pc' = "returned"
    /\ UNCHANGED <<env_path, env, apollo_path, apollo>>
    /\ UNCHANGED main_vars

CatalogFilter ==
    /\ pc = "catalog"
    /\ Usable(env) \/ Usable(apollo)
    /\ \E criteria \in Criteria :
          /\ input' = Call("filter", criteria)
          /\ result' = [op |-> "filter",
                        env |-> IF Usable(env) THEN Env_filter_apps(env, criteria)
                                ELSE NotCalled,
                        apollo |-> IF Usable(apollo) THEN Apollo_filter_apps(apollo, criteria)
                                   ELSE NotCalled]
    /\ pc' = "returned"
    /\ UNCHANGED <<env_path, env, apollo_path, apollo>>
    /\ UNCHANGED main_vars

CatalogRemove ==
    /\ pc = "catalog"
    /\ Usable(env) \/ Usable(apollo)
    /\ \E uuid \in AskedUuids :
          LET e == Env_remove_app_by_uuid(env, uuid)
              a == Apollo_remove_app_by_uuid(apollo, uuid)
          IN  /\ input' = Call("remove", uuid)
              /\ env' = IF Usable(env) THEN e.model ELSE env
              /\ apollo' = IF Usable(apollo) THEN a.model ELSE apollo
              /\ result' = [op |-> "remove",
                            env |-> IF Usable(env) THEN Some(e.returned) ELSE NotCalled,
                            apollo |-> IF Usable(apollo) THEN Some(a.returned)
                                       ELSE NotCalled]
    /\ pc' = "returned"
    /\ UNCHANGED <<env_path, apollo_path>>
    /\ UNCHANGED main_vars

CatalogResolve ==
    /\ pc = "catalog"
    /\ Usable(env) \/ Usable(apollo)
    /\ \E uuid \in AskedUuids :
          /\ input' = Call("image", uuid)
          /\ result' = [op |-> "image",
                        env |-> IF Usable(env) THEN Env_get_image_path(env, uuid)
                                ELSE NotCalled,
                        apollo |-> IF Usable(apollo) THEN Apollo_get_image_path(apollo, uuid)
                                   ELSE NotCalled]
    /\ pc' = "returned"
    /\ UNCHANGED <<env_path, env, apollo_path, apollo>>
    /\ UNCHANGED main_vars

CatalogSave ==
    /\ pc = "catalog"
    /\ Usable(env) \/ Usable(apollo)
    /\ input' = Call("save", None)
    /\ env_path' = IF Usable(env) THEN Catalog_save(env) ELSE env_path
    /\ apollo_path' = IF Usable(apollo) THEN Catalog_save(apollo) ELSE apollo_path
    /\ result' = [op |-> "save",
                  env |-> IF Usable(env) THEN Absent ELSE NotCalled,
                  apollo |-> IF Usable(apollo) THEN Absent ELSE NotCalled]
    /\ pc' = "returned"
    /\ UNCHANGED <<env, apollo>>
    /\ UNCHANGED main_vars

\* a caller adds an entry to the list and the lookup of the object
CatalogAppend ==
    /\ pc = "catalog"
    /\ Usable(env) \/ Usable(apollo)
    /\ Usable(env) => Len(env.apps.items) < MaxEntries
    /\ Usable(apollo) => Len(apollo.apps.items) < MaxEntries
    /\ \E entry \in EntryPool :
          /\ input' = Call("append", entry)
          /\ env' = IF Usable(env) THEN AppendEntry(env, entry) ELSE env
          /\ apollo' = IF Usable(apollo) THEN AppendEntry(apollo, entry) ELSE apollo
    /\ result' = [op |-> "append"]
    /\ pc' = "returned"
    /\ UNCHANGED <<env_path, apollo_path>>
    /\ UNCHANGED main_vars

\* _add_game once the uuid is known not to be in the catalog and the file
\* can be written
CatalogAddGame ==
    /\ pc = "catalog"
    /\ Usable(apollo)
    /\ Len(apollo.apps.items) < MaxEntries
    /\ \E uuid \in CatalogUuids, image_path \in {"", SavedCover} :
          /\ Apollo_get_app_by_uuid(apollo, uuid).none
          /\ input' = Call("add_game", uuid)
          /\ apollo' = AppendEntry(apollo, app_entry(uuid, image_path))
          /\ apollo_path' = Catalog_save(apollo')
    /\ result' = [op |-> "add_game"]
    /\ pc' = "returned"
    /\ UNCHANGED <<env_path, env>>
    /\ UNCHANGED main_vars

\* _remove_game once the uuid is known to be in the catalog and the file
\* can be written
CatalogRemoveGame ==
    /\ pc = "catalog"
    /\ Usable(apollo)
    /\ \E uuid \in CatalogUuids :
          /\ ~Apollo_get_app_by_uuid(apollo, uuid).none
          /\ input' = Call("remove_game", uuid)
          /\ apollo' = DropEntries(apollo, uuid)
          /\ apollo_path' = Catalog_save(apollo')
    /\ result' = [op |-> "remove_game"]
    /\ pc' = "returned"
    /\ UNCHANGED <<env_path, env>>
    /\ UNCHANGED main_vars

\* verify_managed_covers repairs the image path of one managed entry and saves
CatalogReconcile ==
    /\ pc = "catalog"
    /\ Usable(apollo)
    /\ \E uuid \in CatalogUuids :
          /\ ~Apollo_get_app_by_uuid(apollo, uuid).none
          /\ input' = Call("reconcile", uuid)
          /\ apollo' = SetImagePath(apollo, uuid, SavedCover)
          /\ apollo_path' = Catalog_save(apollo')
    /\ result' = [op |-> "reconcile"]
    /\ pc' = "returned"
    /\ UNCHANGED <<env_path, env>>
    /\ UNCHANGED main_vars

NextCatalog ==
    \/ CatalogOpen
    \/ CatalogGet
    \/ CatalogFilter
    \/ CatalogRemove
    \/ CatalogResolve
    \/ CatalogSave
    \/ CatalogAppend
    \/ CatalogReturn

SpecCatalog == InitCatalog /\ [][NextCatalog]_vars

\* helios.py works on the legacy object of an apps.json the host wrote
InitGames ==
    /\ InitCatalog
    /\ apollo_path \in ValidFiles

NextGames ==
    \/ CatalogOpen
    \/ CatalogRemove
    \/ CatalogAddGame
    \/ CatalogRemoveGame
    \/ CatalogReconcile
    \/ CatalogReturn

SpecGames == InitGames /\ [][NextGames]_vars

-----------------------------------------------------------------------------
(* Two invocations on one catalog file *)

Invocations == {1, 2}

\* most entries one invocation adds
MaxAdds == 1

\* the uuids of the apps an invocation may add
RaceUuids == CatalogUuids \cup {"U3"}

\* the catalog file the invocations find: no entry, or one of the pool next to
\* a key of the host
RaceFiles ==
    {FileText("list", <<>>, EmptyMap)}
        \cup {FileText("list", <<entry>>, [env |-> "PATH"]) : entry \in EntryPool}

\* no invocation has saved; per invocation the uuids it found in the file, the
\* uuids it added and has not removed since, and the uuids it removed
NoHistory ==
    [last |-> 0, loaded |-> [p \in Invocations |-> {}], kept |-> [p \in Invocations |-> {}],
     added |-> [p \in Invocations |-> 0], dropped |-> [p \in Invocations |-> {}]]

\* apollo holds the object of each invocation, apollo_path the file they share
InitRace ==
    /\ pc = [p \in Invocations |-> "start"]
    /\ MainIdle
    /\ input = NoCall
    /\ result = NoHistory
    /\ env_path = Missing
    /\ env = NoModel
    /\ apollo_path \in RaceFiles
    /\ apollo = [p \in Invocations |-> NoModel]

\* get_apollo_apps(): the invocation constructs its object from the file
RaceLoad(p) ==
    /\ pc[p] = "start"
    /\    LET a == Apollo_init(apollo_path, "C:/Apollo")
          IN  /\ apollo' = [apollo EXCEPT ![p] = a.model]
              /\ result' = [result EXCEPT !.loaded[p] = DOMAIN a.model.by_uuid]
    /\ pc' = [pc EXCEPT ![p] = "loaded"]
    /\ UNCHANGED <<input, env_path, env, apollo_path>>
    /\ UNCHANGED main_vars

\* _add_game: the entry is appended to the object and the object is saved
RaceAdd(p) ==
    /\ pc[p] = "loaded"
    /\ result.added[p] < MaxAdds
    /\ \E uuid \in RaceUuids :
          /\ Apollo_get_app_by_uuid(apollo[p], uuid).none
          /\ apollo' = [apollo EXCEPT ![p] = AppendEntry(@, app_entry(uuid, SavedCover))]
          /\ result' = [result EXCEPT !.last = p, !.kept[p] = @ \cup {uuid},
                                      !.added[p] = @ + 1]
    /\ apollo_path' = Catalog_save(apollo'[p])
    /\ UNCHANGED <<pc, input, env_path, env>>
    /\ UNCHANGED main_vars

\* _remove_game: the entries of the uuid are dropped and the object is saved
RaceRemove(p) ==
    /\ pc[p] = "loaded"
    /\ \E uuid \in DOMAIN apollo[p].by_uuid :
          /\ apollo' = [apollo EXCEPT ![p] = DropEntries(@, uuid)]
          /\ result' = [result EXCEPT !.last = p, !.kept[p] = @ \ {uuid},
                                      !.dropped[p] = @ \cup {uuid}]
    /\ apollo_path' = Catalog_save(apollo'[p])
    /\ UNCHANGED <<pc, input, env_path, env>>
    /\ UNCHANGED main_vars

\* the process ends
RaceExit(p) ==
    /\ pc[p] = "loaded"
    /\ pc' = [pc EXCEPT ![p] = "exited"]
    /\ apollo' = [apollo EXCEPT ![p] = NoModel]
    /\ UNCHANGED <<input, result, env_path, env, apollo_path>>
    /\ UNCHANGED main_vars

RaceLoads == \E p \in Invocations : RaceLoad(p)
RaceAdds == \E p \in Invocations : RaceAdd(p)
RaceRemoves == \E p \in Invocations : RaceRemove(p)
RaceExits == \E p \in Invocations : RaceExit(p)

NextRace ==
    \/ RaceLoads
    \/ RaceAdds
    \/ RaceRemoves
    \/ RaceExits

SpecRace == InitRace /\ [][NextRace]_vars

-----------------------------------------------------------------------------
(* Claims *)

CallsOf(op) == {c \in calls : c.op = op}

Entries(entries, u) == {i \in DOMAIN entries : entries[i].uuid = u}

\* C1: in the add workflow an app whose write access is denied gets no catalog
\* entry, nothing persisted and not the status "added", and the status "added"
\* is recorded only for an app whose entry was appended and persisted
C1_DeniedAddIsSkipped ==
    pc \in {"addLoop", "remove"} =>
        /\ \A c \in CallsOf("add") :
              (c.denied /\ ~c.present /\ ~\E d \in CallsOf("add") : d.uuid = c.uuid /\ d.ok) =>
                  /\ c.uuid \notin UuidsOf(apps)
                  /\ c.uuid \notin UuidsOf(file)
                  /\ Get(status_map, c.uuid) # StAdded
        /\ \A u \in DOMAIN status_map :
              status_map[u] = StAdded =>
                  /\ \E c \in CallsOf("add") : c.uuid = u /\ c.ok
                  /\ u \in UuidsOf(file)

\* C2: in the remove workflow an app whose write access is denied keeps its
\* catalog entry and its cover and does not get the status "removed", and the
\* status "removed" is recorded only for an app whose entry was deleted and persisted
C2_DeniedRemoveIsSkipped ==
    pc \in {"removeLoop", "cleanup"} =>
        /\ \A c \in CallsOf("remove") :
              (c.denied /\ ~\E d \in CallsOf("remove") : d.uuid = c.uuid /\ d.ok) =>
                  /\ c.uuid \in UuidsOf(apps)
                  /\ c.uuid \in UuidsOf(file)
                  /\ c.had_cover => Exists(covers, CoverFile(c.uuid))
                  /\ Get(status_map, c.uuid) # StRemoved
        /\ \A u \in DOMAIN status_map :
              status_map[u] = StRemoved =>
                  /\ \E c \in CallsOf("remove") : c.uuid = u /\ c.ok
                  /\ u \notin UuidsOf(file)

\* C3: the results table printed at the end of the add workflow and of the
\* remove workflow has a row for every uuid that received a status, "UUID not
\* found" included
C3_TableCoversEveryStatus ==
    pc \in {"remove", "cleanup"} => DOMAIN table = DOMAIN status_map

\* C4: add is idempotent: whatever add requests name a uuid, the catalog ends
\* with one entry for it, and a request for a uuid already in the catalog
\* appends nothing and gets the status "already added", not "added"
C4_AddIsIdempotent ==
    pc \in {"addLoop", "remove"} =>
        /\ \A u \in AnyUuid : Cardinality(Entries(apps, u)) <= 1
        /\ \A u \in AnyUuid : Cardinality(Entries(file, u)) <= 1
        /\ \A c \in CallsOf("add") : c.ok \/ c.present => Cardinality(Entries(file, c.uuid)) = 1
        /\ \A c \in CallsOf("add") : c.present => status_map[c.uuid] = StAlready

\* C5: after a successful remove the uuid is in neither the list nor the lookup
\* nor the saved file, its cover file is absent, and once the workflow has
\* refreshed the map and the cache its managed_by_helios is false in both
C5_RemoveLeavesNothing ==
    \A c \in CallsOf("remove") :
        c.ok =>
            /\ pc \in {"removeLoop", "cleanup"} =>
                  /\ c.uuid \notin UuidsOf(apps)
                  /\ c.uuid \notin DOMAIN by_uuid
                  /\ c.uuid \notin UuidsOf(file)
                  /\ ~Exists(covers, CoverFile(c.uuid))
            /\ pc = "cleanup" =>
                  /\ ~libs[c.uuid].managed_by_helios
                  /\ cache.exists
                  /\ c.uuid \in DOMAIN cache.data
                  /\ ~cache.data[c.uuid].managed_by_helios

\* C5 witness: a remove workflow that removed one app whose cover file existed
\* and one whose cover file was already missing
C5_Witness ==
    /\ pc = "cleanup"
    /\ \E c, d \in CallsOf("remove") : c.ok /\ d.ok /\ c.had_cover /\ ~d.had_cover

\* C6: a managed uuid without a valid cover and without a library capsule,
\* whose catalog image-path resolves to an existing local image, has its cover
\* restored from that image: the file is written and the uuid counted restored
C6_FallbackRestoresCover ==
    recon.ran =>
        \A u \in managed_uuids(recon.libs) :
            ( /\ ~is_valid_png(recon.before, CoverFile(u))
              /\ recon.libs[u].library_capsule = None
              /\ get_image_path(recon.by_uuid, u) = "local" ) =>
                /\ is_valid_png(covers, CoverFile(u))
                /\ u \in recon.restored
                /\ u \notin recon.failed

\* C7 as stated: whenever the destination is a valid PNG the save helper
\* returns its path and leaves the file alone, whatever the source argument is
C7_ValidCoverReturnedForAnySource ==
    (last_save.called /\ is_valid_png(last_save.before, CoverFile(last_save.uuid))) =>
        /\ last_save.ret = "cover"
        /\ covers = last_save.before

\* C7 amended: whenever the destination is a valid PNG and the source is a
\* non-blank string the save helper returns its path and leaves the directory
\* alone; with no source or a blank one it returns nothing and leaves the
\* directory alone; a second call with the same arguments returns what the
\* first returned and leaves the directory as the first left it
C7_SaveCoverIsIdempotent ==
    last_save.called =>
        /\ (is_valid_png(last_save.before, CoverFile(last_save.uuid))
               /\ last_save.src \notin {None, ""}) =>
              (last_save.ret = "cover" /\ covers = last_save.before)
        /\ last_save.src \in {None, ""} =>
              (last_save.ret = None /\ covers = last_save.before)
        /\ save_library_capsule(last_save.uuid, last_save.src, covers)
              = [ret |-> last_save.ret, covers |-> covers]

\* C7 witness: the helper was called with a source that does not load while
\* the destination was a valid PNG, and returned the destination
C7_Witness ==
    /\ last_save.called
    /\ is_valid_png(last_save.before, CoverFile(last_save.uuid))
    /\ last_save.src \in {"urlFail", "pathBad", "pathMissing"}
    /\ last_save.ret = "cover"

\* the discovered uuids that the catalog holds
ManagedNow == {u \in DOMAIN libs : u \in UuidsOf(file)}

\* the files a pass removed from the directory listing its cleanup loop read
Deleted == DOMAIN recon.scanned \ DOMAIN covers

PriorCache == IF sel.before.exists THEN sel.before.data ELSE EmptyMap

\* the discovered records a refresh with the last selection inserts
Inserted ==
    IF sel.selection \in AppSources
    THEN {u \in DOMAIN libs : Get(libs[u], "source") = sel.selection}
    ELSE DOMAIN libs

\* the cached records a refresh with the last selection drops before inserting
Pruned ==
    IF sel.selection \in AppSources
    THEN {u \in DOMAIN PriorCache : Get(PriorCache[u], "source") = sel.selection}
    ELSE DOMAIN PriorCache

\* C9 as stated: a refresh with selection S of steam, nonsteam, epic leaves
\* every cached entry of another source unchanged, removes every cached entry
\* of source S and inserts exactly the discovered records of source S
C9_RefreshTouchesOnlyItsSource ==
    sel.selection \in AppSources =>
        /\ \A u \in DOMAIN PriorCache \ Pruned :
              u \in DOMAIN cache.data /\ cache.data[u] = PriorCache[u]
        /\ \A u \in Pruned \ Inserted : u \notin DOMAIN cache.data
        /\ \A u \in Inserted : u \in DOMAIN cache.data /\ cache.data[u] = libs[u]
        /\ DOMAIN cache.data = (DOMAIN PriorCache \ Pruned) \cup Inserted

\* C9 amended: a refresh with selection S leaves every cached entry of another
\* source unchanged unless a discovered record of source S has its uuid,
\* removes every cached entry of source S, and inserts every discovered record
\* of source S, merged over the entry of another source the cache still holds
\* for its uuid; with nothing discovered the result is the prior cache minus
\* its entries of source S
C9_RefreshFrame ==
    sel.selection \in AppSources =>
        /\ \A u \in (DOMAIN PriorCache \ Pruned) \ Inserted :
              u \in DOMAIN cache.data /\ cache.data[u] = PriorCache[u]
        /\ \A u \in Pruned \ Inserted : u \notin DOMAIN cache.data
        /\ \A u \in Inserted \ (DOMAIN PriorCache \ Pruned) :
              u \in DOMAIN cache.data /\ cache.data[u] = libs[u]
        /\ \A u \in Inserted \cap (DOMAIN PriorCache \ Pruned) :
              u \in DOMAIN cache.data /\ cache.data[u] = Merge(PriorCache[u], libs[u])
        /\ DOMAIN cache.data = (DOMAIN PriorCache \ Pruned) \cup Inserted
        /\ Inserted = {} => cache.data = Restrict(PriorCache, DOMAIN PriorCache \ Pruned)

\* C9 witness: the cache held a steam entry and an epic entry, nothing of
\* source epic is discovered, and the refresh with selection epic kept the one
\* and removed the other
C9_Witness ==
    /\ sel.selection = "epic"
    /\ Inserted = {}
    /\ \E u, v \in DOMAIN PriorCache :
          /\ Get(PriorCache[u], "source") = "steam"
          /\ Get(PriorCache[v], "source") = "epic"
          /\ u \in DOMAIN cache.data
          /\ v \notin DOMAIN cache.data

\* C10 as stated: for a uuid in the prior cache file and among the inserted
\* records, every field only the prior record carries is still there after the
\* refresh and every field of the fresh record has the fresh value, for the
\* selections all, steam, nonsteam and epic
C10_PriorFieldsSurvive ==
    sel.selection # None =>
        \A u \in Inserted \cap DOMAIN PriorCache :
            /\ \A f \in DOMAIN PriorCache[u] \ DOMAIN libs[u] :
                  f \in DOMAIN cache.data[u] /\ cache.data[u][f] = PriorCache[u][f]
            /\ \A f \in DOMAIN libs[u] : cache.data[u][f] = libs[u][f]

\* C10 amended: an inserted record is merged over the record the cache still
\* holds for its uuid after pruning. For the selections steam, nonsteam and
\* epic and a prior record of another source, every field only the prior
\* record carries is still there and every field of the fresh record has the
\* fresh value; for the selection all, and for a prior record of the selected
\* source, the prior record is dropped and the cache holds the fresh record
C10_MergeOverWhatPruningKeeps ==
    sel.selection # None =>
        \A u \in Inserted \cap DOMAIN PriorCache :
            IF u \in Pruned
            THEN cache.data[u] = libs[u]
            ELSE /\ \A f \in DOMAIN PriorCache[u] \ DOMAIN libs[u] :
                       f \in DOMAIN cache.data[u] /\ cache.data[u][f] = PriorCache[u][f]
                 /\ \A f \in DOMAIN libs[u] : cache.data[u][f] = libs[u][f]
                 /\ DOMAIN cache.data[u] = DOMAIN PriorCache[u] \cup DOMAIN libs[u]

\* C10 witness: a refresh that inserted a record over a cached record of
\* another source, whose type field survived, and one that inserted a record
\* over a cached record of its own source, whose type field is gone
C10_Witness ==
    /\ sel.selection \in AppSources
    /\ \E u \in (Inserted \cap DOMAIN PriorCache) \ Pruned :
          "type" \in DOMAIN PriorCache[u] /\ "type" \in DOMAIN cache.data[u]
    /\ \E v \in Inserted \cap Pruned :
          "type" \in DOMAIN PriorCache[v] /\ "type" \notin DOMAIN cache.data[v]

\* the terms the --type value holds: split on commas, trimmed, lower-cased
WholeTerms(value) == FilterTerms({value})

\* C11: an app passes the type filter iff at least one whole comma-separated,
\* trimmed term of the --type value is a case-insensitive substring of its
\* type; the term game keeps the type game and drops the type application
C11_TypeFilterMatchesWholeTerms ==
    (result.op = "type" /\ input.value # <<>>) =>
        /\ result.passes <=>
              \E term \in WholeTerms(input.value) :
                  IsSubstring(term, Lower(TypeText(input.app)))
        /\ (input.value = StrGame /\ TypeText(input.app) = StrGame) => result.passes
        /\ (input.value = StrGame /\ TypeText(input.app) = StrApplication) => ~result.passes

\* the installs of the last resolution that carry a name
InstallsNamed(name) == {i \in DOMAIN result.installs : result.installs[i].name = name}

\* C12: of several detected installs the orchestrator opens the catalog of one
\* named Apollo if there is one, otherwise of one named Sunshine, otherwise of
\* the first found, whatever the order in which the registry reports them
C12_PrefersApolloThenSunshine ==
    (result.op = "install" /\ result.installs # <<>>) =>
        IF InstallsNamed("Apollo") # {}
        THEN result.root \in {result.installs[i].root : i \in InstallsNamed("Apollo")}
        ELSE IF InstallsNamed("Sunshine") # {}
        THEN result.root \in {result.installs[i].root : i \in InstallsNamed("Sunshine")}
        ELSE result.root = result.installs[1].root

\* C20 as stated: a display name matching any alias of either list resolves
\* to the key Apollo, and no detected install is reported under the name Sunshine
C20_SingleApolloIdentity ==
    result.op = "install" =>
        \A i \in DOMAIN result.installs : result.installs[i].name = "Apollo"

HasAlias(display_name, alias) == IsSubstring(alias, Lower(display_name))

HasApolloAlias(display_name) ==
    \/ HasAlias(display_name, <<"a", "p", "o", "l", "l", "o">>)
    \/ HasAlias(display_name, <<"v", "i", "b", "e", "p", "o", "l", "l", "o">>)

HasSunshineAlias(display_name) ==
    HasAlias(display_name, <<"s", "u", "n", "s", "h", "i", "n", "e">>)

\* the registry entries of the last resolution that name a fork and hold a catalog
Installed ==
    {i \in DOMAIN input.registry :
        /\ input.registry[i].install_loc # ""
        /\ input.registry[i].has_apps_json
        /\ \/ HasApolloAlias(input.registry[i].display_name)
           \/ HasSunshineAlias(input.registry[i].display_name)}

\* C20 amended: a display name matching the alias apollo or vibepollo resolves
\* to the key Apollo, a display name matching only the alias sunshine resolves
\* to the key Sunshine, and every detected install is reported under the key
\* its display name resolves to
C20_ForkKeyOfFirstAliasList ==
    result.op = "install" =>
        /\ Len(result.installs) = Cardinality(Installed)
        /\ \A i \in DOMAIN result.installs :
              LET inst == result.installs[i]
              IN  /\ HasApolloAlias(inst.display_name) => inst.name = "Apollo"
                  /\ ~HasApolloAlias(inst.display_name) =>
                        (inst.name = "Sunshine" /\ HasSunshineAlias(inst.display_name))

\* C20 witness: a resolution that reported an install under Sunshine and an
\* install whose display name holds aliases of both lists under Apollo
C20_Witness ==
    /\ result.op = "install"
    /\ \E i, j \in DOMAIN result.installs :
          /\ result.installs[i].name = "Sunshine"
          /\ result.installs[j].name = "Apollo"
          /\ result.installs[j].display_name = StrApolloSunshine

\* C13: when the Steam install root is not in the registry the Steam result
\* counts as empty and the invocation goes on: the Epic apps are discovered
\* and make up the unified map
C13_MissingSteamIsEmptySteam ==
    (result.op = "load" /\ ~input.steam_key) =>
        /\ ~result.aborted
        /\ DOMAIN result.all_libraries = {u \in input.installed : SourceOf(u) = "epic"}

\* the view the --status argument names, letter case aside
ViewOf(status) ==
    CASE status \in {"apollo", "Apollo", "sunshine"} -> "install"
      [] status = "steam" -> "steam"
      [] status = "nonsteam" -> "nonsteam"
      [] status = "epic" -> "epic"
      [] status \in {"helios", "HELIOS", ""} -> "summary"
      [] OTHER -> "unknown library"

\* C14: apollo and sunshine print the install metadata, steam, nonsteam and
\* epic their counts, helios and the empty argument the aggregate summary, and
\* any other value prints unknown library
C14_StatusArgumentSelectsItsView ==
    (result.op = "status" /\ input.status # None) =>
        result.printed.view = ViewOf(input.status)

\* a file text that parses to a mapping with a list under "apps"
HoldsAppList(text) == text.exists /\ text.top = "object" /\ text.apps.kind = "list"

\* C15: opening a catalog whose parsed content is not a mapping with a list
\* under apps, also when apps holds null, a string or a mapping, fails with
\* the invalid-data error, constructs no model and leaves the file as it was
C15_OpenRejectsNonListApps ==
    result.op = "open" =>
        /\ (input.env_path.exists /\ ~HoldsAppList(input.env_path)) =>
              (result.env = "RuntimeError" /\ ~env.open /\ env_path = input.env_path)
        /\ (input.apollo_path.exists /\ ~HoldsAppList(input.apollo_path)) =>
              (result.apollo = "RuntimeError" /\ ~apollo.open
               /\ apollo_path = input.apollo_path)

\* the uuid is that of some entry of the list
InList(items, uuid) == \E i \in DOMAIN items : Get(items[i], "uuid") = uuid

OtherEntries(items, uuid) == SelectSeq(items, LAMBDA app : Get(app, "uuid") # uuid)

OtherLookup(lookup, uuid) == [u \in DOMAIN lookup \ {uuid} |-> lookup[u]]

\* what RemoveByUuid has to have done to one model
RemovedRight(before, after, returned, uuid) ==
    /\ returned = InList(before.apps.items, uuid)
    /\ returned =>
          /\ ~InList(after.apps.items, uuid)
          /\ uuid \notin DOMAIN after.by_uuid
          /\ after.apps.items = OtherEntries(before.apps.items, uuid)
          /\ after.by_uuid = OtherLookup(before.by_uuid, uuid)
          /\ after.data = before.data
    /\ ~returned => after = before

\* C18: RemoveByUuid returns true exactly when an entry with that uuid was
\* present; after true the uuid is gone from list and lookup and every other
\* entry is unchanged, after false nothing changed; and the generic and the
\* legacy model opened on the same existing valid file give the same results
\* and end in the same state and file content for GetByUuid, FilterApps,
\* RemoveByUuid, ResolveImagePath and Save
C18_RemoveAndEquivalence ==
    /\ (result.op = "remove" /\ Usable(input.env)) =>
          RemovedRight(input.env, env, result.env.value, input.arg)
    /\ (result.op = "remove" /\ Usable(input.apollo)) =>
          RemovedRight(input.apollo, apollo, result.apollo.value, input.arg)
    /\ (result.op = "open" /\ HoldsAppList(input.env_path)
        /\ input.apollo_path = input.env_path) =>
          (Usable(env) /\ apollo = env /\ apollo_path = env_path)
    /\ (result.op \in {"get", "filter", "remove", "image", "save"}
        /\ Usable(input.env) /\ input.apollo = input.env
        /\ input.apollo_path = input.env_path) =>
          (result.apollo = result.env /\ apollo = env /\ apollo_path = env_path)

\* both models removed an entry that has a duplicate and a neighbour
C18_Witness ==
    /\ result.op = "remove"
    /\ Usable(input.env)
    /\ input.apollo = input.env
    /\ result.env = Some(TRUE)
    /\ result.apollo = Some(TRUE)
    /\ Len(input.env.apps.items) = 2
    /\ Len(env.apps.items) = 1

\* the entry a model's lookup gives for a uuid, taken from its list
EntryOf(model, uuid) == model.apps.items[LookupIndex(model.apps.items, uuid)]

\* what ResolveImagePath has to return on one model
ResolvedRight(model, uuid, returned) ==
    IF ~InList(model.apps.items, uuid) THEN returned = Absent
    ELSE LET image == Get(EntryOf(model, uuid), "image_path")
         IN  CASE image \in {None, ""} -> returned = Absent
               [] image \in AbsoluteImages -> returned = Some(<<image>>)
               [] image \in RelativeImages /\ model.root # None ->
                     returned = Some(<<model.root, "assets", image>>)
               [] image \in RelativeImages /\ model.root = None ->
                     returned = Some(<<image>>)

\* C19: ResolveImagePath returns absent when the entry is missing or has no
\* image-path, an absolute path unchanged, a relative path as
\* <root>/assets/<relative> when a root is configured and as the raw relative
\* path when none is, and never modifies the model or its file
C19_ResolveImagePath ==
    result.op = "image" =>
        /\ Usable(input.env) => ResolvedRight(input.env, input.arg, result.env)
        /\ Usable(input.apollo) => ResolvedRight(input.apollo, input.arg, result.apollo)
        /\ env = input.env
        /\ apollo = input.apollo
        /\ env_path = input.env_path
        /\ apollo_path = input.apollo_path

\* a relative image path was resolved against the root by both models
C19_Witness ==
    /\ result.op = "image"
    /\ Usable(input.env)
    /\ Usable(input.apollo)
    /\ input.env.root = "C:/Apollo"
    /\ result.env = Some(<<"C:/Apollo", "assets", "b.png">>)
    /\ result.apollo = result.env

\* the uuids the entries of a list carry
EntryUuids(items) == {Get(items[i], "uuid") : i \in DOMAIN items} \ {None}

\* the file holds what a Save of the object writes
SavedAs(text, model) == text = Catalog_save(model)

\* C16: opening the generic model on a path that does not exist creates the
\* file with content {"apps": []} and gives an empty model; and once entries
\* were added and saved, a fresh Open gives a model whose entries equal the
\* saved ones field for field and in the same order and whose lookup holds
\* the same uuids
C16_GenericRoundTrip ==
    /\ (result.op = "open" /\ ~input.env_path.exists) =>
          /\ result.env = "none"
          /\ env_path = FileText("list", <<>>, EmptyMap)
          /\ Usable(env)
          /\ env.apps.items = <<>>
          /\ DOMAIN env.by_uuid = {}
    /\ (result.op = "open" /\ Usable(input.env) /\ SavedAs(input.env_path, input.env)) =>
          /\ result.env = "none"
          /\ Usable(env)
          /\ env.apps.items = input.env.apps.items
          /\ DOMAIN env.by_uuid = EntryUuids(input.env.apps.items)
          /\ \A u \in DOMAIN env.by_uuid : env.by_uuid[u] = EntryOf(env, u)

\* the path did not exist at first (the legacy model never got a file), two
\* different entries were added and saved, and the fresh model holds them
C16_Witness ==
    /\ result.op = "open"
    /\ ~apollo_path.exists
    /\ Usable(input.env)
    /\ SavedAs(input.env_path, input.env)
    /\ Len(input.env.apps.items) = 2
    /\ input.env.apps.items[1] # input.env.apps.items[2]
    /\ env.apps.items = input.env.apps.items

\* the entries a catalog file holds
StoredItems(text) == LoadList(text.apps.items)

Coherent(model) ==
    /\ DOMAIN model.by_uuid = EntryUuids(model.apps.items)
    /\ \A u \in DOMAIN model.by_uuid :
          \E i \in DOMAIN model.apps.items : model.apps.items[i] = model.by_uuid[u]
    /\ model.shared
    /\ model.stored = model.apps.items
    /\ StoredItems(Catalog_save(model)) = model.apps.items

\* C29: after Open and any sequence of orchestrator adds, orchestrator
\* removes, RemoveByUuid calls and cover-reconciliation updates, the keys of
\* the lookup are the uuid values of the entries of the list, each lookup
\* value is an element of the list, and the list under data["apps"] is the
\* list the queries read, so that Save writes the entries they report
C29_LookupListAndDataAgree ==
    /\ Usable(apollo) => Coherent(apollo)
    /\ Usable(env) => Coherent(env)
    /\ result.op \in {"add_game", "remove_game", "reconcile"} =>
          StoredItems(apollo_path) = apollo.apps.items

\* a game was removed by the orchestrator from a catalog that keeps another
\* entry, and the saved file holds what the model lists
C29_Witness ==
    /\ result.op = "remove_game"
    /\ Len(input.apollo.apps.items) = 2
    /\ Len(apollo.apps.items) = 1
    /\ DOMAIN apollo.by_uuid # {}
    /\ StoredItems(apollo_path) = apollo.apps.items

\* C30: a cover cleanup pass never deletes a cover file that an entry of the
\* catalog references through its image-path: every entry whose image-path is
\* <covers-dir>/<uuid>.png and whose file existed before the pass still has
\* its file afterwards, also when its uuid is not among the discovered apps
C30_CleanupKeepsReferencedCovers ==
    (recon.ran /\ recon.cleanup) =>
        \A u \in DOMAIN recon.by_uuid :
            (recon.by_uuid[u].image = "cover" /\ Exists(recon.before, CoverFile(u)))
                => Exists(covers, CoverFile(u))

\* the unsigned 32-bit value of an int of the signed 32-bit range: the int
\* itself, or the int plus 2^32
Unsigned32(raw) ==
    IF raw >= 0 THEN Norm(to_bytes_signed(raw))
    ELSE LET low31 == (raw + 2147483647) + 1
         IN  Norm([i \in 1..4 |->
                     IF i = 4 THEN (low31 \div 16777216) + 128
                     ELSE (low31 \div (256 ^ (i - 1))) % 256])

\* C23: for every 32-bit unsigned x, convert(x) >> 32 is x and
\* convert(x) & 0xFFFFFFFF is 0x02000000; so the 32-bit id that asset
\* resolution derives from the 64-bit id of a shortcut is the unsigned 32-bit
\* id the shortcut was enumerated with, for every raw appid of the signed
\* 32-bit range
C23_NonSteamIdRoundTrip ==
    result.op = "nonsteam_id" =>
        /\ Norm(Shr32(result.appID64)) = Norm(result.appID32)
        /\ Norm(Low32(result.appID64)) = Norm(ShortcutTag)
        /\ result.grid_id = DecimalStr(result.appID32)
        /\ input.type = "int" => Norm(result.appID32) = Unsigned32(input.raw)

\* a negative raw appid went through both functions
C23_Witness ==
    /\ result.op = "nonsteam_id"
    /\ input.type = "int"
    /\ input.raw = -1
    /\ result.appID32 = <<255, 255, 255, 255>>
    /\ result.grid_id = <<4, 2, 9, 4, 9, 6, 7, 2, 9, 5>>
    /\ result.appID = <<1, 8, 4, 4, 6, 7, 4, 4, 0, 6, 9, 4, 4, 8, 1, 3, 8, 7, 5, 2>>

\* the items of a scan that are sound: installed games with all their data
SoundItems(scan, items) ==
    {i \in DOMAIN items : items[i] \in {"ok", "int", "bytes"}}

\* C26: discovery never aborts on one bad item: a manifest, a shortcut entry
\* or an .item file that cannot be looked up, loaded or converted (a shortcut
\* whose appid is malformed or does not fit 4 bytes included) is skipped
\* alone and every other item of the scan is still returned
C26_BadItemIsSkippedAlone ==
    result.op = "discover" =>
        /\ result.raised = "none"
        /\ SoundItems(input.scan, input.items) \subseteq result.apps

\* C27: a Helios cache file that parses but has not the shape of a
\* uuid-to-record object (a list, a scalar, an object whose values are no
\* records) makes the run fail with the invalid-structure error and abort,
\* and the cache file is not rewritten
C27_MisshapenCacheIsRejected ==
    (result.op = "cache_startup" /\ input.shape # "records") =>
        /\ result.raised = "RuntimeError"
        /\ ~result.written

\* the rows are the given apps in some order
IsPermutation(rows, values) ==
    /\ Len(rows) = Len(values)
    /\ \A i \in DOMAIN values : \E p \in DOMAIN rows : rows[p] = values[i]

\* the position an app of the input has in the rows
RowOf(rows, app) == CHOOSE p \in DOMAIN rows : rows[p] = app

\* C24: sorting returns a permutation of the given apps for every sort key
\* the command line accepts: by name, source or uuid in case-insensitive
\* ascending order, by managed with the managed apps first and the input
\* order kept inside each group, and in the input order without a sort key
C24_SortReturnsOrderedPermutation ==
    result.op = "sort" =>
        /\ result.returned
        /\ IsPermutation(result.rows, input.values)
        /\ input.sort_key \in {None, ""} => result.rows = input.values
        /\ input.sort_key \in {"name", "source", "uuid"} =>
              \A p, q \in DOMAIN result.rows :
                  p < q => ~StrLess(Lower(result.rows[q][input.sort_key]),
                                    Lower(result.rows[p][input.sort_key]))
        /\ input.sort_key = "managed" =>
              \A i, j \in DOMAIN input.values :
                  LET a == input.values[i]
                      b == input.values[j]
                  IN  (\/ a.managed_by_helios /\ ~b.managed_by_helios
                       \/ a.managed_by_helios = b.managed_by_helios /\ i < j)
                      => RowOf(result.rows, a) < RowOf(result.rows, b)

\* the apps the workflow of the last call starts from, less the explicit ones
OfferedFrom ==
    LET IsCandidate(a) == a.managed_by_helios = (input.kind = "remove")
        NotExplicit(a) == \A i \in DOMAIN result.explicit : result.explicit[i] # a
    IN  SelectSeq(SelectSeq(input.libraries, IsCandidate), NotExplicit)

\* an app stays under every filter that is present, terms taken whole
PassesEveryFilter(a) ==
    /\ search_filter(input.search, a)
    /\ source_filter(input.source, a)
    /\ input.type # <<>> =>
          \E term \in WholeTerms(input.type) : IsSubstring(term, Lower(TypeText(a)))

\* the apps of the pool the answer names by a 1-based decimal index
NamedByIndex(a) ==
    \E i \in DOMAIN input.selection.pieces :
        /\ input.selection.pieces[i] \in {"0", "1", "2"}
        /\ IntOf(input.selection.pieces[i]) \in DOMAIN result.pool
        /\ result.pool[IntOf(input.selection.pieces[i])] = a

\* C22: explicit uuid arguments and no filter: the pool is empty, nothing is prompted
\* and only the explicit apps are processed; no such argument or any filter:
\* the pool is the candidates less the explicit apps under every present
\* filter, prompted for when not empty; a quit token or an empty answer leaves
\* the explicit apps to be processed; an index that does not parse or is out
\* of range is skipped and the workflow goes on
C22_WorkflowPoolAndSelection ==
    result.op = "workflow" =>
        LET filters == input.search # {} \/ input.source # {} \/ input.type # <<>>
        IN  /\ result.raised = "none"
            /\ (input.arg.given /\ ~filters) =>
                  /\ result.pool = <<>>
                  /\ ~result.prompted
                  /\ result.processed = result.explicit
            /\ (~input.arg.given \/ filters) =>
                  /\ result.pool = SelectSeq(OfferedFrom, PassesEveryFilter)
                  /\ result.prompted <=> result.pool # <<>>
            /\ (input.selection.kind = "word" /\ input.selection.word # "all") =>
                  result.processed = result.explicit
            /\ (result.prompted /\ input.selection.kind = "pieces") =>
                  result.processed = result.explicit \o SelectSeq(result.pool, NamedByIndex)

\* C25: at the end of an invocation the cache file holds the unified map:
\* its keys are the discovered uuids, none of them stale, and each record's
\* managed flag tells whether the uuid is in the catalog, in the file and in
\* the object alike
C25_CacheIsUnifiedMapAtExit ==
    pc = "exit" =>
        /\ cache.exists
        /\ DOMAIN cache.data = DOMAIN libs
        /\ \A u \in DOMAIN cache.data :
              /\ cache.data[u].managed_by_helios <=> u \in UuidsOf(file)
              /\ cache.data[u].managed_by_helios <=> u \in DOMAIN by_uuid

\* an invocation ends with a managed and an unmanaged app in the cache, next
\* to a catalog entry that is not discovered and has no record
C25_Witness ==
    /\ pc = "exit"
    /\ 0 \in UuidsOf(file)
    /\ 0 \notin DOMAIN cache.data
    /\ \E u, v \in DOMAIN cache.data :
          cache.data[u].managed_by_helios /\ ~cache.data[v].managed_by_helios

\* the place of a step of main() in the order of its commands
Phase(p) ==
    CASE p = "idle" -> 0 [] p = "cache" -> 1 [] p = "add" -> 2 [] p = "addLoop" -> 3
      [] p = "remove" -> 4 [] p = "removeLoop" -> 5 [] p = "cleanup" -> 6
      [] p = "status" -> 7 [] p = "exit" -> 8 [] OTHER -> 9

\* the app --add names was not managed when the invocation started
AddsNewApp == input.add[1] \notin input.managed

RaceFileUuids ==
    LET items == LoadList(apollo_path.apps.items)
    IN  {items[i].uuid : i \in {j \in DOMAIN items : "uuid" \in DOMAIN items[j]}}

\* C28: the file is what the invocation that saved last holds in memory;
\* nothing that invocation added and kept is missing from it, so an
\* invocation that runs alone loses nothing; an entry another invocation
\* added is missing only if the last writer did not find it when it loaded,
\* or removed it
C28_LastWriterWins ==
    (DOMAIN pc = Invocations /\ result.last # 0) =>
        LET last == result.last
        IN  /\ pc[last] = "loaded" => apollo_path = Catalog_save(apollo[last])
            /\ result.kept[last] \subseteq RaceFileUuids
            /\ \A q \in Invocations \ {last} : \A u \in result.kept[q] \ RaceFileUuids :
                  u \notin result.loaded[last] \/ u \in result.dropped[last]

\* both invocations loaded the file before either saved; the entry the first
\* writer added is not in the file the second writer left
C28_Witness ==
    /\ DOMAIN pc = Invocations
    /\ \A p \in Invocations : pc[p] = "exited"
    /\ result.last # 0
    /\ \E q \in Invocations \ {result.last} : \E u \in result.kept[q] :
          /\ u \notin RaceFileUuids
          /\ u \notin result.dropped[result.last]

====
